---------------------------- MODULE Spec2Model ----------------------------
(***************************************************************************)
(* A model of the FifoT ring buffer template (include/lib_utils/FifoT.h)   *)
(* as instantiated by CharFifo (src/CharFifo.c), with its two extensions   *)
(* forcedPush and getAndPop.                                               *)
(*                                                                         *)
(* The struct's fields are the variables fifo, first, last, in, out and    *)
(* capacity.  Whole calls made by one thread are the actions of Spec; the  *)
(* individual volatile reads and writes of a producer and a consumer       *)
(* thread are the actions of SpecConc, SpecLive and SpecOwn.               *)
(***************************************************************************)
EXTENDS Integers, Sequences, FiniteSets, TLC

\* ------------------------------------------------------------- bounds ---
\* Largest capacity handed to the constructor.
MaxCap == 3
\* Largest element value pushed by a single-threaded caller (chars 0..MaxVal).
MaxVal == 1
\* Successful pushes explored in one run.
MaxPushes == 5
\* Calls each thread starts in a run of a pushing and a popping thread.
MaxCalls == 3
\* Calls each thread starts in a run of threads that call any operation.
MaxOwnCalls == 1
\* Calls each thread starts in a run of a pushing and a traversing thread.
MaxApplyCalls == 2
\* Largest capacity handed to the constructors of the array.
MaxVecCap == 2
\* Largest key handed to the map (keys 0..MaxKey).
MaxKey == 1
\* Calls made on the map in one run.
MaxMapCalls == 2
\* Pairs a map holds before the calls of a run that starts from a filled map.
MaxFill == 2
\* Longest input handed to RleCompressor_compress.
MaxRleLen == 3
\* Longest source array handed to ctorCopy.
MaxCopyLen == 3
\* Calls made on the source and on the copy after ctorCopy.
MaxCopyCalls == 2
\* Vector_MAX_SIZE (INT_MAX unless defined otherwise), scaled down.
Vector_MAX_SIZE == 4
\* Width in bits of SIZE_T in the model (size_t in CharFifo.c, scaled down).
SizeBits == 4

RECURSIVE Pow2(_)
Pow2(n) == IF n = 0 THEN 1 ELSE 2 * Pow2(n - 1)

\* Number of values of SIZE_T: arithmetic on first, last, in, out is modulo this.
SizeMod == Pow2(SizeBits)

Values == 0 .. MaxVal

\* The null pointer returned by getFirst, and the content of a slot that was
\* never written.
NULL == -1

VARIABLES
    fifo,       \* the buffer: slot index -> stored char
    first,      \* read cursor
    last,       \* write cursor
    in,         \* number of pushes, modulo SizeMod
    out,        \* number of pops, modulo SizeMod
    capacity,   \* number of slots
    live,       \* ghost: slots that hold a constructed, not yet destroyed element
    dtors,      \* ghost: number of calls of the element destructor
    pushes,     \* ghost: number of pushes that returned true
    pops,       \* ghost: number of pops that returned true
    absq,       \* ghost: the abstract FIFO sequence
    asserted,   \* ghost: a Debug_ASSERT has failed
    res,        \* the last completed call and what it returned
    pc,         \* per thread: the statement it executes next
    loc,        \* per thread: its local variables and its stack of return labels
    sent,       \* ghost: the items of the pushes that took effect, in order
    got,        \* ghost: the items the consumer obtained from getAndPop, in order
    writers,    \* ghost: per counter field, the threads that have written it
    calls,      \* ghost: per thread, the calls it has started
    vec,        \* the VectorT object, the buffer it points to, and ghosts
    vres,       \* the last completed call on vec and what it returned
    dst,        \* the VectorT object constructed by ctorCopy from vec
    cres,       \* the ctorCopy call and what it did
    map,        \* the MapT object (its mapImpl array) and the file-scope items
    mres,       \* the last completed call on map and what it returned
    rle         \* the arguments and results of the RleCompressor calls

fifoFields == <<fifo, first, last, in, out, capacity>>
ghosts == <<live, dtors, pushes, pops, absq, asserted>>
threads == <<pc, loc, sent, got, writers, calls>>
copies == <<dst, cres>>
maps == <<map, mres>>
vectors == <<vec, vres, copies, maps, rle>>
queue == <<fifoFields, ghosts, res, threads>>
vars == <<queue, vectors>>

\* The object a whole call works on: the struct's fields and the ghosts.
Self ==
    [fifo |-> fifo, first |-> first, last |-> last, in |-> in, out |-> out,
     capacity |-> capacity, live |-> live, dtors |-> dtors, pushes |-> pushes,
     pops |-> pops, absq |-> absq, asserted |-> asserted]

Store(s) ==
    /\ fifo' = s.fifo
    /\ first' = s.first
    /\ last' = s.last
    /\ in' = s.in
    /\ out' = s.out
    /\ capacity' = s.capacity
    /\ live' = s.live
    /\ dtors' = s.dtors
    /\ pushes' = s.pushes
    /\ pops' = s.pops
    /\ absq' = s.absq
    /\ asserted' = s.asserted

\* --------------------------------------------------- SIZE_T arithmetic ---
\* Incr with a counter that advances by two.
IncrTwice(x) == (x + 2) % SizeMod

\* x + 1 in SIZE_T (self->in++, self->out++).
Incr(x) == (x + 1) % SizeMod

\* The cursor advance that moves two slots on.
NextIndexByTwo(idx, cap) == ((idx + 2) % SizeMod) % cap

\* (idx + 1) % capacity, the cursor advance of push and pop.
NextIndex(idx, cap) == ((idx + 1) % SizeMod) % cap

\* getSize with the operands of both subtractions exchanged.
getSizeOfSwapped(i1, o1, i2, o2) ==
    IF i1 >= o1 THEN (o2 - i2) % SizeMod ELSE (i2 - o2) % SizeMod

\* getSize on the values read: the comparison reads in and out (i1, o1), the
\* subtraction reads them again (i2, o2).
getSizeOf(i1, o1, i2, o2) ==
    IF i1 >= o1 THEN (i2 - o2) % SizeMod ELSE (o2 - i2) % SizeMod

\* isFull on the values read.
isFullOf(i1, o1, i2, o2, cap) == getSizeOf(i1, o1, i2, o2) = cap

\* isEmpty that already reports empty while one element is left.
isEmptyOfEarly(i, o) == i <= o + 1

\* isEmpty on the values read.
isEmptyOf(i, o) == i = o

\* ------------------------------------------------ calls on one object ---
getSize(s) == getSizeOf(s.in, s.out, s.in, s.out)

getCapacity(s) == s.capacity

isEmpty(s) == isEmptyOf(s.in, s.out)

\* isFull that also reports an empty queue full.
isFullOrEmpty(s) == getSize(s) = s.capacity \/ s.in = s.out

isFull(s) == isFullOf(s.in, s.out, s.in, s.out, s.capacity)

\* ctor that leaves the write cursor at the end of the buffer.
ctorLastAtEnd(cap) ==
    [fifo |-> [i \in 0 .. cap - 1 |-> NULL], first |-> 0, last |-> cap,
     in |-> 0, out |-> 0, capacity |-> cap, live |-> {}, dtors |-> 0,
     pushes |-> 0, pops |-> 0, absq |-> <<>>, asserted |-> FALSE]

\* ctor on a non-NULL buffer of cap slots (a NULL buffer returns false and
\* leaves no usable object).
ctor(cap) ==
    [fifo |-> [i \in 0 .. cap - 1 |-> NULL], first |-> 0, last |-> 0,
     in |-> 0, out |-> 0, capacity |-> cap, live |-> {}, dtors |-> 0,
     pushes |-> 0, pops |-> 0, absq |-> <<>>, asserted |-> FALSE]

\* push that stores the item after advancing last.
pushAfterAdvance(s, item) ==
    IF isFull(s)
    THEN [self |-> s, ok |-> FALSE]
    ELSE [self |-> [s EXCEPT !.fifo[NextIndex(s.last, s.capacity)] = item,
                             !.live = s.live \cup {s.last},
                             !.last = NextIndex(s.last, s.capacity),
                             !.in = Incr(s.in),
                             !.pushes = s.pushes + 1,
                             !.absq = Append(s.absq, item)],
          ok |-> TRUE]

\* push that counts the item before it finds the queue full.
pushCountsRefused(s, item) ==
    IF isFull(s)
    THEN [self |-> [s EXCEPT !.in = Incr(s.in)], ok |-> FALSE]
    ELSE [self |-> [s EXCEPT !.fifo[s.last] = item,
                             !.live = s.live \cup {s.last},
                             !.last = NextIndex(s.last, s.capacity),
                             !.in = Incr(s.in),
                             !.pushes = s.pushes + 1,
                             !.absq = Append(s.absq, item)],
          ok |-> TRUE]

\* push: [self |-> the object afterwards, ok |-> the value returned].
push(s, item) ==
    IF isFull(s)
    THEN [self |-> s, ok |-> FALSE]
    ELSE [self |-> [s EXCEPT !.fifo[s.last] = item,
                             !.live = s.live \cup {s.last},
                             !.last = NextIndex(s.last, s.capacity),
                             !.in = Incr(s.in),
                             !.pushes = s.pushes + 1,
                             !.absq = Append(s.absq, item)],
          ok |-> TRUE]

\* pop that destroys the element after advancing first.
popDestroysNext(s) ==
    IF isEmpty(s)
    THEN [self |-> s, ok |-> FALSE]
    ELSE [self |-> [s EXCEPT !.live = s.live \ {NextIndex(s.first, s.capacity)},
                             !.dtors = s.dtors + 1,
                             !.first = NextIndex(s.first, s.capacity),
                             !.out = Incr(s.out),
                             !.pops = s.pops + 1,
                             !.absq = IF s.absq = <<>> THEN <<>> ELSE Tail(s.absq)],
          ok |-> TRUE]

\* pop: char_dtor leaves the slot's bytes as they are.
pop(s) ==
    IF isEmpty(s)
    THEN [self |-> s, ok |-> FALSE]
    ELSE [self |-> [s EXCEPT !.live = s.live \ {s.first},
                             !.dtors = s.dtors + 1,
                             !.first = NextIndex(s.first, s.capacity),
                             !.out = Incr(s.out),
                             !.pops = s.pops + 1,
                             !.absq = IF s.absq = <<>> THEN <<>> ELSE Tail(s.absq)],
          ok |-> TRUE]

\* getFirst: the address of slot first (its index), or NULL.
getFirst(s) == IF isEmpty(s) THEN NULL ELSE s.first

\* clear: while (pop(self));  n bounds the recursion, a pop on an object of
\* size k succeeds at most k times below the wrap.
RECURSIVE clearN(_, _)
clearN(s, n) ==
    LET r == pop(s) IN
    IF r.ok /\ n > 0 THEN clearN(r.self, n - 1) ELSE r.self

\* clear that pops once.
clearOnce(s) == pop(s).self

clear(s) == clearN(s, SizeMod)

\* dtor that leaves the elements in their slots.
dtorKeepsElements(s) == s

\* dtor: clear(self).
dtor(s) == clear(s)

\* forcedPush: ok is the value returned (whether it evicted); the object is
\* marked asserted when the inner push returned false.
forcedPush(s, c) ==
    LET full == isFull(s)
        s1 == IF full THEN pop(s).self ELSE s
        r == push(s1, c)
    IN  [self |-> [r.self EXCEPT !.asserted = s.asserted \/ ~r.ok],
         ok |-> full]

\* getAndPop: c is the char read through getFirst's pointer.
getAndPop(s) ==
    LET p == getFirst(s)
        r == pop(s)
    IN  [self |-> [r.self EXCEPT !.asserted = s.asserted \/ ~r.ok],
         c |-> s.fifo[p]]

\* -------------------------------------------- single-threaded actions ---
NoCall == [op |-> "none", ok |-> FALSE, item |-> NULL]

Holds(s) ==
    /\ fifo = s.fifo
    /\ first = s.first
    /\ last = s.last
    /\ in = s.in
    /\ out = s.out
    /\ capacity = s.capacity
    /\ live = s.live
    /\ dtors = s.dtors
    /\ pushes = s.pushes
    /\ pops = s.pops
    /\ absq = s.absq
    /\ asserted = s.asserted

Threads == {"producer", "consumer"}

Fields == {"first", "last", "in", "out"}

\* The callback of a thread that is not in constApply.
NoFn == [p \in 0 .. MaxCap - 1 |-> TRUE]

\* A thread outside any call.
NoLocals ==
    [i1 |-> NULL, o1 |-> NULL, i2 |-> NULL, o2 |-> NULL, tmp |-> NULL,
     rv |-> NULL, ok |-> FALSE, c |-> NULL, retval |-> FALSE, item |-> NULL,
     size |-> NULL, i |-> NULL, cont |-> FALSE, fn |-> NoFn, stack |-> <<>>]

\* No array is in use.
NoCopies == dst = <<>> /\ cres = <<>>

NoMaps == map = <<>> /\ mres = <<>>

NoRle == rle = <<>>

NoVector == vec = <<>> /\ vres = <<>> /\ NoCopies /\ NoMaps /\ NoRle

ThreadsIdle ==
    /\ NoVector
    /\ pc = [t \in Threads |-> "idle"]
    /\ loc = [t \in Threads |-> NoLocals]
    /\ sent = <<>>
    /\ got = <<>>
    /\ writers = [f \in Fields |-> {}]
    /\ calls = [t \in Threads |-> 0]

\* The object after ctor(buffer, cap) returned true, for any cap.
Init ==
    /\ \E cap \in 0 .. MaxCap : Holds(ctor(cap))
    /\ res = NoCall
    /\ ThreadsIdle

\* A call is explored while the run stays within MaxPushes accepted pushes.
Within(s) == s.pushes <= MaxPushes

Push ==
    \E item \in Values :
        LET r == push(Self, item) IN
        /\ Within(r.self)
        /\ Store(r.self)
        /\ res' = [op |-> "push", ok |-> r.ok, item |-> item]
        /\ UNCHANGED <<threads, vectors>>

Pop ==
    LET r == pop(Self) IN
    /\ Store(r.self)
    /\ res' = [op |-> "pop", ok |-> r.ok, item |-> NULL]
    /\ UNCHANGED <<threads, vectors>>

ForcedPush ==
    \E item \in Values :
        LET r == forcedPush(Self, item) IN
        /\ Within(r.self)
        /\ Store(r.self)
        /\ res' = [op |-> "forcedPush", ok |-> r.ok, item |-> item]
        /\ UNCHANGED <<threads, vectors>>

\* getAndPop dereferences getFirst(): callers test isEmpty first, as the
\* tests do (the dereference of NULL is undefined).
GetAndPop ==
    /\ ~isEmpty(Self)
    /\ LET r == getAndPop(Self) IN
       /\ Store(r.self)
       /\ res' = [op |-> "getAndPop", ok |-> TRUE, item |-> r.c]
    /\ UNCHANGED <<threads, vectors>>

Clear ==
    /\ Store(clear(Self))
    /\ res' = [op |-> "clear", ok |-> TRUE, item |-> NULL]
    /\ UNCHANGED <<threads, vectors>>

Next == Push \/ Pop \/ ForcedPush \/ GetAndPop \/ Clear

Spec == Init /\ [][Next]_vars

\* dtor ends the use of the object: no call follows it.
FifoDtor ==
    /\ res.op # "dtor"
    /\ Store(dtor(Self))
    /\ res' = [op |-> "dtor", ok |-> TRUE, item |-> NULL]
    /\ UNCHANGED <<threads, vectors>>

NextLife == (res.op # "dtor" /\ Next) \/ FifoDtor

\* The single-threaded calls on a queue up to and including its dtor.
SpecLife == Init /\ [][NextLife]_vars

\* The object after SizeMod - d pushes of 0, each followed by a pop: in and out
\* are d increments away from the largest value of SIZE_T.  The ghost counters
\* count from this state on.
beforeWrap(cap, d) ==
    [ctor(cap) EXCEPT !.fifo = [i \in 0 .. cap - 1 |-> 0],
                      !.first = (SizeMod - d) % cap,
                      !.last = (SizeMod - d) % cap,
                      !.in = SizeMod - d,
                      !.out = SizeMod - d]

InitWrap ==
    /\ \E cap \in 1 .. MaxCap, d \in 1 .. MaxCap : Holds(beforeWrap(cap, d))
    /\ res = NoCall
    /\ ThreadsIdle

\* The single-threaded calls on a queue whose counters are about to wrap.
SpecWrap == InitWrap /\ [][Next]_vars


\* --------------------------------------------------------- constApply ---
\* The callbacks: fn[pos] is what fn returns when called with position pos.
ApplyFns == [0 .. MaxCap - 1 -> BOOLEAN]

\* The for loop of constApply: made is the record of the calls of fn made so
\* far (the slot handed over, the char in it, the position).
RECURSIVE applyLoop(_, _, _, _, _, _)
applyLoop(s, fn, size, i, cont, made) ==
    IF i < size /\ cont
    THEN LET index == ((i + s.first) % SizeMod) % s.capacity IN
         applyLoop(s, fn, size, i + 1, fn[i],
                   Append(made, [slot |-> index, c |-> s.fifo[index],
                                  pos |-> i]))
    ELSE [n |-> i, made |-> made]

\* constApply that starts at the write cursor.
constApplyFromLast(s, fn) ==
    applyLoop([s EXCEPT !.first = s.last], fn, getSize(s), 0, TRUE, <<>>)

\* constApply: n is the value returned.
constApply(s, fn) == applyLoop(s, fn, getSize(s), 0, TRUE, <<>>)

ConstApply ==
    \E fn \in ApplyFns :
        LET r == constApply(Self, fn) IN
        /\ res' = [op |-> "constApply", ok |-> TRUE, item |-> r.n,
                   made |-> r.made, fn |-> fn]
        /\ UNCHANGED <<vectors, fifoFields, ghosts, threads>>

NextApply == Push \/ Pop \/ ForcedPush \/ GetAndPop \/ Clear \/ ConstApply

SpecApply == Init /\ [][NextApply]_vars

\* ------------------------------------------------------ construction ---
\* ctor with the object's fields as they happen to be: a NULL buffer is stored
\* in self->fifo (no slot, written <<>>) and false is returned with every
\* other field untouched.
ctorOn(s, buffer, cap) ==
    IF buffer = NULL
    THEN [self |-> [s EXCEPT !.fifo = <<>>], ok |-> FALSE]
    ELSE [self |-> ctor(cap), ok |-> TRUE]

\* What the fields of an object hold before its constructor ran.
Garbage == {0, SizeMod - 1}

Raw ==
    {[ctor(0) EXCEPT !.first = f, !.last = l, !.in = i, !.out = o,
                     !.capacity = c] :
        f \in Garbage, l \in Garbage, i \in Garbage, o \in Garbage,
        c \in Garbage}

InitCtor ==
    /\ \E s \in Raw : Holds(s)
    /\ res = NoCall
    /\ ThreadsIdle

\* ctor(self, buffer, cap): buffer is NULL or the address of the caller's
\* array (written 0); res records both arguments.
Ctor ==
    /\ res.op = "none"
    /\ \E buffer \in {NULL, 0}, cap \in 0 .. MaxCap :
          LET r == ctorOn(Self, buffer, cap) IN
          /\ Store(r.self)
          /\ res' = [op |-> "ctor", ok |-> r.ok, item |-> cap,
                     buffer |-> buffer]
    /\ UNCHANGED <<threads, vectors>>

\* The object may be used once ctor has returned true.
Constructed == res.op # "none" /\ (res.op = "ctor" => res.ok)

NextCtor ==
    \/ Ctor
    \/ Constructed /\ Push
    \/ Constructed /\ Pop
    \/ Constructed /\ ForcedPush
    \/ Constructed /\ GetAndPop
    \/ Constructed /\ Clear

SpecCtor == InitCtor /\ [][NextCtor]_vars

\* ------------------------------------- the calls, one access at a time ---
\* Every read and write of first, last, in, out and of a buffer slot is a
\* step of the calling thread.  The two operands of a comparison or of a
\* subtraction are read in either order.  A call pushes its return label.

Local(t) == loc[t]

\* Thread t continues at label with locals l.
Goto(t, label, l) ==
    /\ pc' = [pc EXCEPT ![t] = label]
    /\ loc' = [loc EXCEPT ![t] = l]

\* The callee's locals on entry, returning to label.
Enter(l, label) == [l EXCEPT !.stack = <<label>> \o l.stack]

\* Return the number, pointer or char v to the caller.
Return(t, l, v) ==
    Goto(t, Head(l.stack),
         [l EXCEPT !.rv = v, !.ok = FALSE, !.stack = Tail(l.stack),
                   !.i1 = NULL, !.o1 = NULL, !.i2 = NULL, !.o2 = NULL,
                   !.tmp = NULL])

\* Return the bool b to the caller.
ReturnBool(t, l, b) ==
    Goto(t, Head(l.stack),
         [l EXCEPT !.ok = b, !.rv = NULL, !.stack = Tail(l.stack),
                   !.i1 = NULL, !.o1 = NULL, !.i2 = NULL, !.o2 = NULL,
                   !.tmp = NULL])

Wrote(t, f) == writers' = [writers EXCEPT ![f] = @ \cup {t}]

\* isEmpty: return self->in == self->out;
IsEmptyReadIn(t) ==
    /\ pc[t] = "isEmpty"
    /\ Local(t).i1 = NULL
    /\ IF Local(t).o1 = NULL
       THEN Goto(t, "isEmpty", [Local(t) EXCEPT !.i1 = in])
       ELSE ReturnBool(t, Local(t), isEmptyOf(in, Local(t).o1))
    /\ UNCHANGED <<vectors, fifoFields, ghosts, res, sent, got, writers, calls>>

IsEmptyReadOut(t) ==
    /\ pc[t] = "isEmpty"
    /\ Local(t).o1 = NULL
    /\ IF Local(t).i1 = NULL
       THEN Goto(t, "isEmpty", [Local(t) EXCEPT !.o1 = out])
       ELSE ReturnBool(t, Local(t), isEmptyOf(Local(t).i1, out))
    /\ UNCHANGED <<vectors, fifoFields, ghosts, res, sent, got, writers, calls>>

\* getSize: if (self->in >= self->out)
GetSizeCmpReadIn(t) ==
    /\ pc[t] = "getSize"
    /\ Local(t).i1 = NULL
    /\ Goto(t, IF Local(t).o1 = NULL THEN "getSize" ELSE "getSize_sub",
            [Local(t) EXCEPT !.i1 = in])
    /\ UNCHANGED <<vectors, fifoFields, ghosts, res, sent, got, writers, calls>>

GetSizeCmpReadOut(t) ==
    /\ pc[t] = "getSize"
    /\ Local(t).o1 = NULL
    /\ Goto(t, IF Local(t).i1 = NULL THEN "getSize" ELSE "getSize_sub",
            [Local(t) EXCEPT !.o1 = out])
    /\ UNCHANGED <<vectors, fifoFields, ghosts, res, sent, got, writers, calls>>

\* getSize: return self->in - self->out;  or  return self->out - self->in;
GetSizeSubReadIn(t) ==
    /\ pc[t] = "getSize_sub"
    /\ Local(t).i2 = NULL
    /\ IF Local(t).o2 = NULL
       THEN Goto(t, "getSize_sub", [Local(t) EXCEPT !.i2 = in])
       ELSE Return(t, Local(t),
                   getSizeOf(Local(t).i1, Local(t).o1, in, Local(t).o2))
    /\ UNCHANGED <<vectors, fifoFields, ghosts, res, sent, got, writers, calls>>

GetSizeSubReadOut(t) ==
    /\ pc[t] = "getSize_sub"
    /\ Local(t).o2 = NULL
    /\ IF Local(t).i2 = NULL
       THEN Goto(t, "getSize_sub", [Local(t) EXCEPT !.o2 = out])
       ELSE Return(t, Local(t),
                   getSizeOf(Local(t).i1, Local(t).o1, Local(t).i2, out))
    /\ UNCHANGED <<vectors, fifoFields, ghosts, res, sent, got, writers, calls>>

\* isFull: return getSize(self) == self->capacity;
CallIsFull(l, label) == Enter(Enter(l, label), "isFull_cmp")

IsFullCmp(t) ==
    /\ pc[t] = "isFull_cmp"
    /\ ReturnBool(t, Local(t), Local(t).rv = capacity)
    /\ UNCHANGED <<vectors, fifoFields, ghosts, res, sent, got, writers, calls>>

\* push: if (isFull(self)) return false;  T_ctorCopy(&self->fifo[self->last], item);
CallPush(l, item, label) ==
    CallIsFull(Enter([l EXCEPT !.item = item], label), "push_chk")

PushCopy(t) ==
    /\ pc[t] = "push_chk"
    /\ IF Local(t).ok
       THEN /\ ReturnBool(t, Local(t), FALSE)
            /\ UNCHANGED <<fifo, live>>
       ELSE /\ fifo' = [fifo EXCEPT ![last] = Local(t).item]
            /\ live' = live \cup {last}
            /\ Goto(t, "push_last", Local(t))
    /\ UNCHANGED <<vectors, first, last, in, out, capacity, dtors, pushes, pops, absq,
                   asserted, res, sent, got, writers, calls>>

\* push: self->last = (self->last + 1) % self->capacity;
PushLastRead(t) ==
    /\ pc[t] = "push_last"
    /\ Goto(t, "push_last_wr", [Local(t) EXCEPT !.tmp = last])
    /\ UNCHANGED <<vectors, fifoFields, ghosts, res, sent, got, writers, calls>>

PushLastWrite(t) ==
    /\ pc[t] = "push_last_wr"
    /\ last' = NextIndex(Local(t).tmp, capacity)
    /\ Wrote(t, "last")
    /\ Goto(t, "push_in", Local(t))
    /\ UNCHANGED <<vectors, fifo, first, in, out, capacity, ghosts, res, sent, got, calls>>

\* push: self->in++;  return true;
PushInRead(t) ==
    /\ pc[t] = "push_in"
    /\ Goto(t, "push_in_wr", [Local(t) EXCEPT !.tmp = in])
    /\ UNCHANGED <<vectors, fifoFields, ghosts, res, sent, got, writers, calls>>

PushInWrite(t) ==
    /\ pc[t] = "push_in_wr"
    /\ in' = Incr(Local(t).tmp)
    /\ Wrote(t, "in")
    /\ pushes' = pushes + 1
    /\ sent' = Append(sent, Local(t).item)
    /\ ReturnBool(t, Local(t), TRUE)
    /\ UNCHANGED <<vectors, fifo, first, last, out, capacity, live, dtors, pops, absq,
                   asserted, res, got, calls>>

\* pop: if (isEmpty(self)) return false;  T_dtor(&self->fifo[self->first]);
CallPop(l, label) == Enter(Enter(l, label), "pop_chk")

PopDtor(t) ==
    /\ pc[t] = "pop_chk"
    /\ IF Local(t).ok
       THEN /\ ReturnBool(t, Local(t), FALSE)
            /\ UNCHANGED <<live, dtors>>
       ELSE /\ live' = live \ {first}
            /\ dtors' = dtors + 1
            /\ Goto(t, "pop_first", Local(t))
    /\ UNCHANGED <<vectors, fifoFields, pushes, pops, absq, asserted, res, sent, got,
                   writers, calls>>

\* pop: self->first = (self->first + 1) % self->capacity;
PopFirstRead(t) ==
    /\ pc[t] = "pop_first"
    /\ Goto(t, "pop_first_wr", [Local(t) EXCEPT !.tmp = first])
    /\ UNCHANGED <<vectors, fifoFields, ghosts, res, sent, got, writers, calls>>

PopFirstWrite(t) ==
    /\ pc[t] = "pop_first_wr"
    /\ first' = NextIndex(Local(t).tmp, capacity)
    /\ Wrote(t, "first")
    /\ Goto(t, "pop_out", Local(t))
    /\ UNCHANGED <<vectors, fifo, last, in, out, capacity, ghosts, res, sent, got, calls>>

\* pop: self->out++;  return true;
PopOutRead(t) ==
    /\ pc[t] = "pop_out"
    /\ Goto(t, "pop_out_wr", [Local(t) EXCEPT !.tmp = out])
    /\ UNCHANGED <<vectors, fifoFields, ghosts, res, sent, got, writers, calls>>

PopOutWrite(t) ==
    /\ pc[t] = "pop_out_wr"
    /\ out' = Incr(Local(t).tmp)
    /\ Wrote(t, "out")
    /\ pops' = pops + 1
    /\ ReturnBool(t, Local(t), TRUE)
    /\ UNCHANGED <<vectors, fifo, first, last, in, capacity, live, dtors, pushes, absq,
                   asserted, res, sent, got, calls>>

\* getFirst: if (isEmpty(self)) return NULL; else return &self->fifo[self->first];
CallGetFirst(l, label) == Enter(Enter(l, label), "getFirst_chk")

GetFirstRet(t) ==
    /\ pc[t] = "getFirst_chk"
    /\ Return(t, Local(t), IF Local(t).ok THEN NULL ELSE first)
    /\ UNCHANGED <<vectors, fifoFields, ghosts, res, sent, got, writers, calls>>

\* getAndPop: char c = *getFirst(self);  the dereference of NULL is undefined:
\* the thread is taken to stop there.
CallGetAndPop(l, label) == CallGetFirst(Enter(l, label), "getAndPop_deref")

GetAndPopDeref(t) ==
    /\ pc[t] = "getAndPop_deref"
    /\ IF Local(t).rv = NULL
       THEN /\ asserted' = TRUE
            /\ Goto(t, "crashed", Local(t))
       ELSE /\ asserted' = asserted
            /\ Goto(t, "isEmpty",
                    CallPop([Local(t) EXCEPT !.c = fifo[Local(t).rv]],
                            "getAndPop_ret"))
    /\ UNCHANGED <<vectors, fifoFields, live, dtors, pushes, pops, absq, res, sent, got,
                   writers, calls>>

\* getAndPop: ok = pop(self);  Debug_ASSERT(ok);  return c;
GetAndPopRet(t) ==
    /\ pc[t] = "getAndPop_ret"
    /\ asserted' = (asserted \/ ~Local(t).ok)
    /\ Return(t, Local(t), Local(t).c)
    /\ UNCHANGED <<vectors, fifoFields, live, dtors, pushes, pops, absq, res, sent, got,
                   writers, calls>>

\* forcedPush: if (isFull(self)) { pop(self); retval = true; }
CallForcedPush(l, item, label) ==
    CallIsFull(Enter([l EXCEPT !.item = item, !.retval = FALSE], label),
               "forcedPush_chk")

ForcedPushEvict(t) ==
    /\ pc[t] = "forcedPush_chk"
    /\ Local(t).ok
    /\ Goto(t, "isEmpty",
            CallPop([Local(t) EXCEPT !.retval = TRUE], "forcedPush_push"))
    /\ UNCHANGED <<vectors, fifoFields, ghosts, res, sent, got, writers, calls>>

\* forcedPush: ok = push(self, c);
ForcedPushPush(t) ==
    /\ \/ (pc[t] = "forcedPush_chk" /\ ~Local(t).ok)
       \/ pc[t] = "forcedPush_push"
    /\ Goto(t, "getSize", CallPush(Local(t), Local(t).item, "forcedPush_ret"))
    /\ UNCHANGED <<vectors, fifoFields, ghosts, res, sent, got, writers, calls>>

\* forcedPush: Debug_ASSERT(ok);  return retval;
ForcedPushRet(t) ==
    /\ pc[t] = "forcedPush_ret"
    /\ asserted' = (asserted \/ ~Local(t).ok)
    /\ ReturnBool(t, Local(t), Local(t).retval)
    /\ UNCHANGED <<vectors, fifoFields, live, dtors, pushes, pops, absq, res, sent, got,
                   writers, calls>>

\* clear: while (pop(self));
CallClear(l, label) == CallPop(Enter(l, label), "clear_chk")

ClearAgain(t) ==
    /\ pc[t] = "clear_chk"
    /\ Local(t).ok
    /\ Goto(t, "isEmpty", CallPop(Local(t), "clear_chk"))
    /\ UNCHANGED <<vectors, fifoFields, ghosts, res, sent, got, writers, calls>>

ClearRet(t) ==
    /\ pc[t] = "clear_chk"
    /\ ~Local(t).ok
    /\ Return(t, Local(t), NULL)
    /\ UNCHANGED <<vectors, fifoFields, ghosts, res, sent, got, writers, calls>>

\* The steps of isEmpty, getSize, isFull, push and pop.
QueueStep(t) ==
    \/ IsEmptyReadIn(t) \/ IsEmptyReadOut(t)
    \/ GetSizeCmpReadIn(t) \/ GetSizeCmpReadOut(t)
    \/ GetSizeSubReadIn(t) \/ GetSizeSubReadOut(t)
    \/ IsFullCmp(t)
    \/ PushCopy(t) \/ PushLastRead(t) \/ PushLastWrite(t)
    \/ PushInRead(t) \/ PushInWrite(t)
    \/ PopDtor(t) \/ PopFirstRead(t) \/ PopFirstWrite(t)
    \/ PopOutRead(t) \/ PopOutWrite(t)

GetAndPopStep(t) == GetFirstRet(t) \/ GetAndPopDeref(t) \/ GetAndPopRet(t)

ForcedPushStep(t) == ForcedPushEvict(t) \/ ForcedPushPush(t) \/ ForcedPushRet(t)

ClearStep(t) == ClearAgain(t) \/ ClearRet(t)

\* constApply: SIZE_T i = 0; SIZE_T size = getSize(self); bool cont = true;
CallConstApply(l, fn, label) ==
    Enter(Enter([l EXCEPT !.fn = fn], label), "apply_size")

ApplySize(t) ==
    /\ pc[t] = "apply_size"
    /\ Goto(t, "apply_loop",
            [Local(t) EXCEPT !.size = Local(t).rv, !.i = 0, !.cont = TRUE,
                             !.rv = NULL])
    /\ UNCHANGED <<vectors, fifoFields, ghosts, res, sent, got, writers, calls>>

\* constApply: for (..; i < size && cont; ..)  and, after the loop, return i;
ApplyLoop(t) ==
    /\ pc[t] = "apply_loop"
    /\ IF Local(t).i < Local(t).size /\ Local(t).cont
       THEN Goto(t, "apply_index", Local(t))
       ELSE Return(t, [Local(t) EXCEPT !.size = NULL, !.i = NULL,
                                       !.cont = FALSE, !.fn = NoFn],
                   Local(t).i)
    /\ UNCHANGED <<vectors, fifoFields, ghosts, res, sent, got, writers, calls>>

\* constApply that counts the index from slot 0.
ApplyIndexFromZero(t) ==
    /\ pc[t] = "apply_index"
    /\ Goto(t, "apply_fn",
            [Local(t) EXCEPT !.tmp = (Local(t).i % SizeMod) % capacity])
    /\ UNCHANGED <<vectors, fifoFields, ghosts, res, sent, got, writers, calls>>

\* constApply: SIZE_T index = (i + self->first) % self->capacity;
ApplyIndex(t) ==
    /\ pc[t] = "apply_index"
    /\ Goto(t, "apply_fn",
            [Local(t) EXCEPT
                !.tmp = ((Local(t).i + first) % SizeMod) % capacity])
    /\ UNCHANGED <<vectors, fifoFields, ghosts, res, sent, got, writers, calls>>

\* constApply: cont = fn(context, &self->fifo[index], i);  ++i
\* fn reads the element handed to it: got records what it read.
ApplyFn(t) ==
    /\ pc[t] = "apply_fn"
    /\ got' = Append(got, fifo[Local(t).tmp])
    /\ Goto(t, "apply_loop",
            [Local(t) EXCEPT !.cont = Local(t).fn[Local(t).i],
                             !.i = Local(t).i + 1, !.tmp = NULL])
    /\ UNCHANGED <<vectors, fifoFields, ghosts, res, sent, writers, calls>>

ApplyStep(t) == ApplySize(t) \/ ApplyLoop(t) \/ ApplyIndex(t) \/ ApplyFn(t)

\* --------------------------------- the producer and consumer of the tests ---
\* Items that pass through the queue in one run (iterations in the tests).
NItems == MaxCap + 1

\* fillFifo: push 0, 1, .., n - 1.
RECURSIVE fillFifo(_, _, _)
fillFifo(s, i, n) ==
    IF i >= n THEN s ELSE fillFifo(push(s, i).self, i + 1, n)

\* tail_chases_head_concurrently starts on the constructed queue,
\* head_chases_tail_concurrently on the queue filled by fillFifo.
InitConc ==
    /\ \E cap \in 0 .. MaxCap :
          \/ /\ Holds(ctor(cap))
             /\ res = NoCall
             /\ sent = <<>>
          \/ /\ Holds(fillFifo(ctor(cap), 0, cap))
             /\ res = [op |-> "fillFifo", ok |-> TRUE, item |-> NULL]
             /\ sent = absq
    /\ NoVector
    /\ pc = [t \in Threads |-> "idle"]
    /\ loc = [t \in Threads |-> NoLocals]
    /\ got = <<>>
    /\ writers = [f \in Fields |-> {}]
    /\ calls = [t \in Threads |-> 0]

\* producer: for (i ..; i < iterations; i++) if (!push(&i)) { yield(); --i; }
ProducerLoop ==
    /\ pc["producer"] = "idle"
    /\ Len(sent) < NItems
    /\ Goto("producer", "getSize", CallPush(Local("producer"), Len(sent), "idle"))
    /\ UNCHANGED <<vectors, fifoFields, ghosts, res, sent, got, writers, calls>>

\* consumer: for (i = 0; i < iterations; i++) if (!isEmpty()) ..
ConsumerLoop ==
    /\ pc["consumer"] = "idle"
    /\ Len(got) < NItems
    /\ Goto("consumer", "isEmpty", Enter(Local("consumer"), "consumer_chk"))
    /\ UNCHANGED <<vectors, fifoFields, ghosts, res, sent, got, writers, calls>>

\* consumer: .. ASSERT_EQ((char) i, getAndPop());  else { yield(); --i; }
ConsumerChk ==
    /\ pc["consumer"] = "consumer_chk"
    /\ IF Local("consumer").ok
       THEN Goto("consumer", "idle", Local("consumer"))
       ELSE Goto("consumer", "isEmpty",
                 CallGetAndPop(Local("consumer"), "consumer_got"))
    /\ UNCHANGED <<vectors, fifoFields, ghosts, res, sent, got, writers, calls>>

ConsumerGot ==
    /\ pc["consumer"] = "consumer_got"
    /\ got' = Append(got, Local("consumer").rv)
    /\ Goto("consumer", "idle", Local("consumer"))
    /\ UNCHANGED <<vectors, fifoFields, ghosts, res, sent, writers, calls>>

ProducerTest == ProducerLoop \/ QueueStep("producer")

ConsumerTest ==
    \/ ConsumerLoop \/ ConsumerChk \/ ConsumerGot
    \/ QueueStep("consumer") \/ GetAndPopStep("consumer")

NextConc ==
    \/ ProducerLoop
    \/ ConsumerLoop
    \/ ConsumerChk
    \/ ConsumerGot
    \/ \E t \in Threads : QueueStep(t)
    \/ \E t \in Threads : GetAndPopStep(t)

SpecConc == InitConc /\ [][NextConc]_vars

\* Both threads are scheduled again and again (they yield to each other).
SpecLive == SpecConc /\ WF_vars(ProducerTest) /\ WF_vars(ConsumerTest)

\* ------------------------------ threads that call the queue in any order ---
\* Each thread starts at most n calls.
ProducerPush(n) ==
    /\ pc["producer"] = "idle"
    /\ calls["producer"] < n
    /\ calls' = [calls EXCEPT !["producer"] = @ + 1]
    /\ \E item \in Values :
          Goto("producer", "getSize", CallPush(Local("producer"), item, "idle"))
    /\ UNCHANGED <<vectors, fifoFields, ghosts, res, sent, got, writers>>

ProducerForcedPush(n) ==
    /\ pc["producer"] = "idle"
    /\ calls["producer"] < n
    /\ calls' = [calls EXCEPT !["producer"] = @ + 1]
    /\ \E item \in Values :
          Goto("producer", "getSize",
               CallForcedPush(Local("producer"), item, "idle"))
    /\ UNCHANGED <<vectors, fifoFields, ghosts, res, sent, got, writers>>

ConsumerPop(n) ==
    /\ pc["consumer"] = "idle"
    /\ calls["consumer"] < n
    /\ calls' = [calls EXCEPT !["consumer"] = @ + 1]
    /\ Goto("consumer", "isEmpty", CallPop(Local("consumer"), "idle"))
    /\ UNCHANGED <<vectors, fifoFields, ghosts, res, sent, got, writers>>

ConsumerGetFirst(n) ==
    /\ pc["consumer"] = "idle"
    /\ calls["consumer"] < n
    /\ calls' = [calls EXCEPT !["consumer"] = @ + 1]
    /\ Goto("consumer", "isEmpty", CallGetFirst(Local("consumer"), "idle"))
    /\ UNCHANGED <<vectors, fifoFields, ghosts, res, sent, got, writers>>

ConsumerClear(n) ==
    /\ pc["consumer"] = "idle"
    /\ calls["consumer"] < n
    /\ calls' = [calls EXCEPT !["consumer"] = @ + 1]
    /\ Goto("consumer", "isEmpty", CallClear(Local("consumer"), "idle"))
    /\ UNCHANGED <<vectors, fifoFields, ghosts, res, sent, got, writers>>

\* One producer that pushes, one consumer that pops.
NextPushPop ==
    \/ ProducerPush(MaxCalls)
    \/ ConsumerPop(MaxCalls)
    \/ \E t \in Threads : QueueStep(t)

SpecPushPop == InitConc /\ [][NextPushPop]_vars

\* The producer calls push and forcedPush, the consumer pop, getFirst and clear.
NextOwn ==
    \/ ProducerPush(MaxOwnCalls)
    \/ ProducerForcedPush(MaxOwnCalls)
    \/ ConsumerPop(MaxOwnCalls)
    \/ ConsumerGetFirst(MaxOwnCalls)
    \/ ConsumerClear(MaxOwnCalls)
    \/ \E t \in Threads : QueueStep(t)
    \/ \E t \in Threads : ForcedPushStep(t)
    \/ \E t \in Threads : GetFirstRet(t)
    \/ \E t \in Threads : ClearStep(t)

SpecOwn == InitConc /\ [][NextOwn]_vars

\* The producer calls forcedPush while the consumer calls pop.
NextEvict ==
    \/ ProducerForcedPush(MaxOwnCalls)
    \/ ConsumerPop(MaxOwnCalls)
    \/ \E t \in Threads : QueueStep(t)
    \/ \E t \in Threads : ForcedPushStep(t)

SpecEvict == InitConc /\ [][NextEvict]_vars

\* ---------------------- a consumer that traverses while a producer pushes ---
\* The callbacks that return false at one position, or never.
ApplyStops == {[p \in 0 .. MaxCap - 1 |-> p # k] : k \in 0 .. MaxCap}

\* The producer of the tests, which pushes 0, 1, 2, ..
ProducerPushNext(n) ==
    /\ pc["producer"] = "idle"
    /\ calls["producer"] < n
    /\ calls' = [calls EXCEPT !["producer"] = @ + 1]
    /\ Goto("producer", "getSize",
            CallPush(Local("producer"), Len(sent), "idle"))
    /\ UNCHANGED <<vectors, fifoFields, ghosts, res, sent, got, writers>>

ConsumerConstApply(n) ==
    /\ pc["consumer"] = "idle"
    /\ calls["consumer"] < n
    /\ calls' = [calls EXCEPT !["consumer"] = @ + 1]
    /\ \E fn \in ApplyStops :
          Goto("consumer", "getSize",
               CallConstApply(Local("consumer"), fn, "idle"))
    /\ UNCHANGED <<vectors, fifoFields, ghosts, res, sent, got, writers>>

\* The producer pushes; the consumer, in its role, pops and calls constApply.
NextApplyConc ==
    \/ ProducerPushNext(MaxApplyCalls)
    \/ ConsumerPop(MaxApplyCalls)
    \/ ConsumerConstApply(MaxApplyCalls)
    \/ \E t \in Threads : QueueStep(t)
    \/ \E t \in Threads : ApplyStep(t)

SpecApplyConc == InitConc /\ [][NextApplyConc]_vars

\* ------------------------------------------------------------ VectorT ---
\* The array object (vector_, size_, nextFree_, isStatic_), the memory its
\* buffer pointer refers to, and ghosts.  vector_ is the identity of the
\* buffer, mem the slots of that buffer: val is what the slot holds, live
\* whether it holds a constructed and not yet destroyed element.

\* A slot of freshly allocated (or caller-supplied) memory.
RawSlot == [val |-> NULL, live |-> FALSE]

RawBuffer(n) == [i \in 0 .. n - 1 |-> RawSlot]

\* The object after a constructor stored buffer and capacity: id is the
\* buffer's identity, allocs the number of buffers obtained from Memory_alloc.
NewVector(id, allocs, defaultSize, static) ==
    [vector_ |-> id, size_ |-> defaultSize, nextFree_ |-> 0,
     isStatic_ |-> static, mem |-> RawBuffer(defaultSize), allocs |-> allocs,
     freed |-> {}, oob |-> FALSE, baddtor |-> FALSE, badcopy |-> FALSE,
     failed |-> FALSE, abs |-> <<>>, dtorLog |-> <<>>, destructed |-> FALSE]

\* ctor when Memory_alloc(sizeof(T) * defaultSize) returned a buffer (a NULL
\* from the allocator makes ctor return false and leaves no usable object).
VectorT_ctor(defaultSize) == NewVector(1, 1, defaultSize, FALSE)

\* ctorStatic on a non-NULL buffer of the caller (buffer 0).
VectorT_ctorStatic(defaultSize) == NewVector(0, 0, defaultSize, TRUE)

\* The calls T_dtor(&buf[from]), ..., T_dtor(&buf[to]) in ascending order.
DtorCallsUp(buf, from, to) ==
    [k \in 1 .. to - from + 1 |-> [buf |-> buf, idx |-> from + k - 1]]

\* The calls T_dtor(&buf[from]), ..., T_dtor(&buf[to]) in descending order.
DtorCallsDown(buf, from, to) ==
    [k \in 1 .. from - to + 1 |-> [buf |-> buf, idx |-> from - k + 1]]

\* The object as a call finds it: dtorLog lists the T_dtor calls of one call.
Called(s) == [s EXCEPT !.dtorLog = <<>>]

\* T_dtor(&m[i]) for the indices idxs: the slots hold no element afterwards
\* (what a destroyed element leaves behind is not a value of the array).
DtorSlots(m, idxs) ==
    [i \in DOMAIN m |-> IF i \in idxs THEN RawSlot ELSE m[i]]

\* resizeIfNeeded growing a static array as if it owned its buffer.
resizeIfNeededStaticGrows(s, allocOk, failAt) ==
    IF s.nextFree_ < s.size_
    THEN [self |-> s, ok |-> TRUE]
    ELSE IF ~(2 * s.size_ <= Vector_MAX_SIZE /\ allocOk)
    THEN [self |-> [s EXCEPT !.failed = ~s.isStatic_ \/ s.failed],
          ok |-> FALSE]
    ELSE [self |-> [s EXCEPT
                      !.vector_ = s.allocs + 1,
                      !.allocs = s.allocs + 1,
                      !.freed = s.freed \cup {s.vector_},
                      !.size_ = 2 * s.size_,
                      !.mem = [i \in 0 .. 2 * s.size_ - 1 |->
                                 IF i < s.size_ THEN s.mem[i] ELSE RawSlot]],
          ok |-> TRUE]

\* resizeIfNeeded without its copying loop: the new buffer is installed with
\* none of the elements of the old one.
resizeIfNeededNoCopy(s, allocOk, failAt) ==
    IF s.nextFree_ < s.size_
    THEN [self |-> s, ok |-> TRUE]
    ELSE IF s.isStatic_
    THEN [self |-> s, ok |-> FALSE]
    ELSE IF ~(2 * s.size_ <= Vector_MAX_SIZE /\ allocOk)
    THEN [self |-> [s EXCEPT !.failed = TRUE], ok |-> FALSE]
    ELSE [self |-> [s EXCEPT !.vector_ = s.allocs + 1,
                             !.allocs = s.allocs + 1,
                             !.freed = s.freed \cup {s.vector_},
                             !.size_ = 2 * s.size_,
                             !.mem = RawBuffer(2 * s.size_)],
          ok |-> TRUE]

\* resizeIfNeeded.  allocOk: Memory_alloc returns a buffer; failAt: the index
\* whose T_ctorCopy into the new buffer returns false (none when failAt is
\* not below size_).  ok is the value returned.
VectorT_resizeIfNeeded(s, allocOk, failAt) ==
    IF s.nextFree_ < s.size_
    THEN [self |-> s, ok |-> TRUE]
    ELSE IF s.isStatic_
    THEN [self |-> s, ok |-> FALSE]
    ELSE
      LET newSize == 2 * s.size_
          obtained == newSize <= Vector_MAX_SIZE /\ allocOk
      IN
      IF ~obtained
      THEN [self |-> [s EXCEPT !.failed = TRUE], ok |-> FALSE]
      ELSE
        LET retval == failAt >= s.size_
            \* i after the copying loop: it is incremented after the failing copy too
            iEnd == IF retval THEN s.size_ ELSE failAt + 1
            copied == IF retval THEN 0 .. s.size_ - 1 ELSE 0 .. failAt - 1
            read == 0 .. iEnd - 1
            new1 == [i \in 0 .. newSize - 1 |->
                        IF i \in copied
                        THEN [val |-> s.mem[i].val, live |-> TRUE]
                        ELSE RawSlot]
            \* for (; i > 0 && !retval; i--) T_dtor(&newVector[i]);
            undone == IF retval THEN {} ELSE 1 .. iEnd
            new2 == DtorSlots(new1, undone)
        IN
        [self |-> [s EXCEPT
                     !.vector_ = s.allocs + 1,
                     !.allocs = s.allocs + 1,
                     !.freed = s.freed \cup {s.vector_},
                     !.size_ = newSize,
                     !.mem = new2,
                     !.badcopy = s.badcopy
                                  \/ \E i \in read : ~s.mem[i].live,
                     !.baddtor = s.baddtor
                                  \/ (\E i \in read : ~s.mem[i].live)
                                  \/ (\E i \in undone : ~new1[i].live),
                     !.failed = s.failed \/ ~retval,
                     !.dtorLog = s.dtorLog
                                  \o DtorCallsUp(s.vector_, 0, iEnd - 1)
                                  \o (IF retval THEN <<>>
                                      ELSE DtorCallsDown(s.allocs + 1,
                                                         iEnd, 1))],
         ok |-> retval]

\* A push that forgets the length when resizeIfNeeded returns false.
pushBackResetsOnFailure(s, item, allocOk, failAt, ctorOk) ==
    LET r == VectorT_resizeIfNeeded(s, allocOk, failAt)
        s1 == r.self
        n == s1.nextFree_
    IN
    IF ~r.ok
    THEN [self |-> [s1 EXCEPT !.nextFree_ = 0], ok |-> FALSE]
    ELSE IF ~ctorOk
    THEN [self |-> [s1 EXCEPT !.failed = TRUE], ok |-> FALSE]
    ELSE [self |-> [s1 EXCEPT
                      !.mem = IF n < s1.size_
                              THEN [s1.mem EXCEPT
                                      ![n] = [val |-> item, live |-> TRUE]]
                              ELSE s1.mem,
                      !.oob = s1.oob \/ n >= s1.size_,
                      !.nextFree_ = n + 1,
                      !.abs = Append(s1.abs, item)],
          ok |-> TRUE]

\* pushBack, pushBackByPtr (T_ctorCopy) and pushBackMove, pushBackMoveByPtr
\* (T_ctorMove): ctorOk is what the constructor of the new element returns.
\* A write at an index outside the buffer is recorded in oob.
VectorT_pushBack(s, item, allocOk, failAt, ctorOk) ==
    LET r == VectorT_resizeIfNeeded(s, allocOk, failAt)
        s1 == r.self
        n == s1.nextFree_
    IN
    IF ~r.ok
    THEN [self |-> s1, ok |-> FALSE]
    ELSE IF ~ctorOk
    THEN [self |-> [s1 EXCEPT !.failed = TRUE,
                              !.oob = s1.oob \/ n >= s1.size_],
          ok |-> FALSE]
    ELSE [self |-> [s1 EXCEPT
                      !.mem = IF n < s1.size_
                              THEN [s1.mem EXCEPT
                                      ![n] = [val |-> item, live |-> TRUE]]
                              ELSE s1.mem,
                      !.oob = s1.oob \/ n >= s1.size_,
                      !.nextFree_ = n + 1,
                      !.abs = Append(s1.abs, item)],
          ok |-> TRUE]

\* popBack
VectorT_popBack(s) ==
    IF s.nextFree_ > 0
    THEN [s EXCEPT !.mem = DtorSlots(s.mem, {s.nextFree_ - 1}),
                   !.baddtor = s.baddtor \/ ~s.mem[s.nextFree_ - 1].live,
                   !.dtorLog = s.dtorLog
                                \o DtorCallsUp(s.vector_, s.nextFree_ - 1,
                                               s.nextFree_ - 1),
                   !.nextFree_ = s.nextFree_ - 1,
                   !.abs = SubSeq(s.abs, 1, Len(s.abs) - 1)]
    ELSE s

\* clear that leaves the first element alone.
clearSkipsFirst(s) ==
    [s EXCEPT !.mem = DtorSlots(s.mem, 1 .. s.nextFree_ - 1),
              !.baddtor = s.baddtor
                           \/ \E i \in 1 .. s.nextFree_ - 1 : ~s.mem[i].live,
              !.dtorLog = s.dtorLog
                           \o DtorCallsUp(s.vector_, 1, s.nextFree_ - 1),
              !.nextFree_ = 0,
              !.abs = <<>>]

\* clear
VectorT_clear(s) ==
    [s EXCEPT !.mem = DtorSlots(s.mem, 0 .. s.nextFree_ - 1),
              !.baddtor = s.baddtor
                           \/ \E i \in 0 .. s.nextFree_ - 1 : ~s.mem[i].live,
              !.dtorLog = s.dtorLog
                           \o DtorCallsUp(s.vector_, 0, s.nextFree_ - 1),
              !.nextFree_ = 0,
              !.abs = <<>>]

\* dtor that frees the buffer whatever the ownership mode.
dtorFreesAlways(s) ==
    [s EXCEPT !.mem = DtorSlots(s.mem, 0 .. s.nextFree_ - 1),
              !.baddtor = s.baddtor
                           \/ \E i \in 0 .. s.nextFree_ - 1 : ~s.mem[i].live,
              !.dtorLog = s.dtorLog
                           \o DtorCallsUp(s.vector_, 0, s.nextFree_ - 1),
              !.freed = s.freed \cup {s.vector_},
              !.destructed = TRUE]

\* dtor: the elements are destroyed, the buffer is freed unless the array is
\* static, the fields are left as they are and the object is no longer used.
VectorT_dtor(s) ==
    [s EXCEPT !.mem = DtorSlots(s.mem, 0 .. s.nextFree_ - 1),
              !.baddtor = s.baddtor
                           \/ \E i \in 0 .. s.nextFree_ - 1 : ~s.mem[i].live,
              !.dtorLog = s.dtorLog
                           \o DtorCallsUp(s.vector_, 0, s.nextFree_ - 1),
              !.freed = IF s.isStatic_ THEN s.freed
                        ELSE s.freed \cup {s.vector_},
              !.destructed = TRUE]

\* replaceElementAt with 0 <= n < nextFree_ (asserted): assignOk is what
\* T_assign returns; a failed assignment leaves the element as it was.
VectorT_replaceElementAt(s, n, newElement, assignOk) ==
    IF assignOk
    THEN [self |-> [s EXCEPT !.mem[n].val = newElement,
                             !.abs = [s.abs EXCEPT ![n + 1] = newElement]],
          ok |-> TRUE]
    ELSE [self |-> [s EXCEPT !.failed = TRUE], ok |-> FALSE]

VectorT_getSize(s) == s.nextFree_

VectorT_isEmpty(s) == s.nextFree_ = 0

\* getElementAt with 0 <= n < nextFree_ (asserted), the copy succeeding: what
\* the slot holds, NULL when it holds no element.
VectorT_getElementAt(s, n) == IF s.mem[n].live THEN s.mem[n].val ELSE NULL

\* The queue variables while the array is exercised.
NoQueue ==
    /\ Holds(ctor(0))
    /\ res = NoCall
    /\ pc = [t \in Threads |-> "idle"]
    /\ loc = [t \in Threads |-> NoLocals]
    /\ sent = <<>>
    /\ got = <<>>
    /\ writers = [f \in Fields |-> {}]
    /\ calls = [t \in Threads |-> 0]

\* What a call returned, with what the allocator did during it: "none" when
\* Memory_alloc was not called, "ok" or "failed" for what it returned.
\* What a call returned, with what it was given; failAt is the index whose
\* copy into the new buffer failed during growth, NULL when none did.
VCall(op, ok, item, alloc) ==
    [op |-> op, ok |-> ok, item |-> item, alloc |-> alloc, failAt |-> NULL]

NoVCall == VCall("none", FALSE, NULL, "none")

\* An array built by ctor or by ctorStatic, with any initial capacity.
InitVec ==
    /\ \E defaultSize \in 0 .. MaxVecCap :
          \/ vec = VectorT_ctor(defaultSize)
          \/ vec = VectorT_ctorStatic(defaultSize)
    /\ vres = NoVCall
    /\ NoCopies
    /\ NoMaps
    /\ NoQueue
    /\ NoRle

\* The call will ask the allocator for a buffer of twice the size.
Grows(s) ==
    /\ ~(s.nextFree_ < s.size_)
    /\ ~s.isStatic_
    /\ 2 * s.size_ <= Vector_MAX_SIZE

\* A call is made on an object that has not been destroyed, while no earlier
\* call has written outside the buffer (what follows such a write is
\* undefined).
Usable(s) == ~s.oob /\ ~s.destructed

PushBackCall(op) ==
    /\ Usable(vec)
    /\ \E item \in Values, ctorOk \in BOOLEAN,
          allocOk \in (IF Grows(vec) THEN BOOLEAN ELSE {TRUE}),
          failAt \in (IF Grows(vec) THEN 0 .. vec.size_ ELSE {vec.size_}) :
          LET r == VectorT_pushBack(Called(vec), item, allocOk, failAt,
                                    ctorOk)
          IN
          /\ vec' = r.self
          /\ vres' = [VCall(op, r.ok, item,
                            IF ~Grows(vec) THEN "none"
                            ELSE IF allocOk THEN "ok" ELSE "failed")
                      EXCEPT !.failAt = IF /\ Grows(vec)
                                           /\ allocOk
                                           /\ failAt < vec.size_
                                        THEN failAt ELSE NULL]
    /\ UNCHANGED <<queue, copies, maps, rle>>

PushBack == PushBackCall("pushBack")

PushBackByPtr == PushBackCall("pushBackByPtr")

PushBackMove == PushBackCall("pushBackMove")

PushBackMoveByPtr == PushBackCall("pushBackMoveByPtr")

PopBack ==
    /\ Usable(vec)
    /\ vec' = VectorT_popBack(Called(vec))
    /\ vres' = VCall("popBack", TRUE, NULL, "none")
    /\ UNCHANGED <<queue, copies, maps, rle>>

VClear ==
    /\ Usable(vec)
    /\ vec' = VectorT_clear(Called(vec))
    /\ vres' = VCall("clear", TRUE, NULL, "none")
    /\ UNCHANGED <<queue, copies, maps, rle>>

ReplaceElementAt ==
    /\ Usable(vec)
    /\ \E n \in 0 .. vec.nextFree_ - 1, newElement \in Values,
          assignOk \in BOOLEAN :
          LET r == VectorT_replaceElementAt(Called(vec), n, newElement,
                                            assignOk)
          IN
          /\ vec' = r.self
          /\ vres' = VCall("replaceElementAt", r.ok, newElement, "none")
    /\ UNCHANGED <<queue, copies, maps, rle>>

Dtor ==
    /\ Usable(vec)
    /\ vec' = VectorT_dtor(Called(vec))
    /\ vres' = VCall("dtor", TRUE, NULL, "none")
    /\ UNCHANGED <<queue, copies, maps, rle>>

NextVec ==
    \/ PushBack \/ PushBackByPtr \/ PushBackMove \/ PushBackMoveByPtr
    \/ PopBack \/ VClear \/ ReplaceElementAt \/ Dtor

SpecVec == InitVec /\ [][NextVec]_vars

\* ----------------------------------------------------------- ctorCopy ---
\* The result of N##_ctorCopy(v, s).  allocOk: Memory_alloc returns a buffer;
\* failAt: the index whose T_ctorCopy returns false (none when not below
\* nextFree_); signed: SIZE_T is a signed type; static: the value found in
\* v->isStatic_, which ctorCopy never assigns.  returned: the call came back
\* to its caller; freedBuf: the new buffer was freed; dtorLog: the T_dtor calls
\* of the rollback; oob: a T_dtor call was made outside the new buffer.
VectorT_ctorCopy(s, allocOk, failAt, signed, static) ==
    LET id == s.allocs + 1
        n == s.nextFree_
        none == [ok |-> FALSE, returned |-> TRUE, self |-> <<>>,
                 buf |-> NULL, freedBuf |-> FALSE, dtorLog |-> <<>>,
                 oob |-> FALSE]
    IN
    IF ~allocOk
    THEN none
    ELSE IF failAt >= n
    THEN [none EXCEPT
            !.ok = TRUE,
            !.buf = id,
            !.self = [vector_ |-> id, size_ |-> s.size_, nextFree_ |-> n,
                      isStatic_ |-> static,
                      mem |-> [i \in 0 .. s.size_ - 1 |->
                                 IF i < n
                                 THEN [val |-> s.mem[i].val, live |-> TRUE]
                                 ELSE RawSlot],
                      allocs |-> id, freed |-> {}, oob |-> FALSE,
                      baddtor |-> FALSE,
                      badcopy |-> \E i \in 0 .. n - 1 : ~s.mem[i].live,
                      failed |-> FALSE,
                      abs |-> [k \in 1 .. n |-> s.mem[k - 1].val],
                      dtorLog |-> <<>>, destructed |-> FALSE]]
    ELSE IF signed
    \* for (--i; i >= 0; --i) T_dtor(&v->vector_[i]); Memory_free; return false
    THEN [none EXCEPT !.buf = id,
                      !.dtorLog = DtorCallsDown(id, failAt - 1, 0),
                      !.freedBuf = TRUE]
    \* i >= 0 holds for every value of an unsigned i: after index 0 the loop
    \* goes on at the largest value of SIZE_T and does not end
    ELSE [none EXCEPT !.buf = id,
                      !.dtorLog = DtorCallsDown(id, failAt - 1, 0)
                                   \o <<[buf |-> id, idx |-> SizeMod - 1]>>,
                      !.oob = TRUE,
                      !.returned = FALSE]

RECURSIVE PushAll(_, _)
\* The array after pushBack of each of items, allocations and copies succeeding.
PushAll(s, items) ==
    IF items = <<>> THEN s
    ELSE PushAll(VectorT_pushBack(s, Head(items), TRUE, s.size_, TRUE).self,
                 Tail(items))

CopySources == UNION {[1 .. n -> Values] : n \in 0 .. MaxCopyLen}

NoCCall ==
    [op |-> "none", ok |-> FALSE, returned |-> FALSE, signed |-> FALSE,
     failAt |-> 0, alloc |-> "none", buf |-> NULL, freedBuf |-> FALSE,
     dtorLog |-> <<>>, oob |-> FALSE, calls |-> 0, on |-> "none"]

\* A source array that ctor or ctorStatic built and pushes filled, and no
\* copy of it yet.
InitCopy ==
    /\ \E defaultSize \in 0 .. MaxVecCap, items \in CopySources :
          \/ vec = PushAll(VectorT_ctor(defaultSize), items)
          \/ vec = PushAll(VectorT_ctorStatic(defaultSize), items)
    /\ Usable(vec)
    /\ vres = NoVCall
    /\ dst = <<>>
    /\ cres = NoCCall
    /\ NoMaps
    /\ NoQueue
    /\ NoRle

CtorCopy ==
    /\ cres.op = "none"
    /\ \E allocOk \in BOOLEAN, failAt \in 0 .. vec.nextFree_,
          signed \in BOOLEAN, static \in BOOLEAN :
          LET r == VectorT_ctorCopy(vec, allocOk, failAt, signed, static) IN
          /\ dst' = r.self
          /\ cres' = [NoCCall EXCEPT
                        !.op = "ctorCopy", !.ok = r.ok,
                        !.returned = r.returned, !.signed = signed,
                        !.failAt = failAt,
                        !.alloc = IF allocOk THEN "ok" ELSE "failed",
                        !.buf = r.buf, !.freedBuf = r.freedBuf,
                        !.dtorLog = r.dtorLog, !.oob = r.oob]
    /\ UNCHANGED <<vec, vres, maps, queue, rle>>

\* The allocator has handed out the buffers of both arrays: the next one is
\* new to both.
Fresh(s, o) == [s EXCEPT !.allocs = IF o.allocs > s.allocs THEN o.allocs
                                    ELSE s.allocs]

\* The array o after a call changed the array old into new: the slots of o
\* are those of old when both point to the same buffer.
Through(o, old, new) ==
    IF o.vector_ # old.vector_ THEN o
    ELSE IF new.vector_ = old.vector_ THEN [o EXCEPT !.mem = new.mem]
    ELSE [o EXCEPT !.mem = RawBuffer(o.size_)]

\* A call on the source (on = "src") or on the copy (on = "dst") took the
\* array old to new.
CopyCalled(on, op, ok, item, alloc, old, new) ==
    /\ vres' = VCall(op, ok, item, alloc)
    /\ cres' = [cres EXCEPT !.calls = cres.calls + 1, !.on = on]
    /\ IF on = "src"
       THEN vec' = new /\ dst' = Through(dst, old, new)
       ELSE dst' = new /\ vec' = Through(vec, old, new)
    /\ UNCHANGED <<maps, queue, rle>>

CopyCallable(s) ==
    /\ cres.op = "ctorCopy"
    /\ cres.ok
    /\ cres.calls < MaxCopyCalls
    /\ Usable(s)

CopyPushBack(on, s, o) ==
    /\ CopyCallable(s)
    /\ \E item \in Values, ctorOk \in BOOLEAN,
          allocOk \in (IF Grows(s) THEN BOOLEAN ELSE {TRUE}),
          failAt \in (IF Grows(s) THEN 0 .. s.size_ ELSE {s.size_}) :
          LET r == VectorT_pushBack(Called(Fresh(s, o)), item, allocOk,
                                    failAt, ctorOk)
          IN CopyCalled(on, "pushBack", r.ok, item,
                        IF ~Grows(s) THEN "none"
                        ELSE IF allocOk THEN "ok" ELSE "failed",
                        s, r.self)

CopyPopBack(on, s, o) ==
    /\ CopyCallable(s)
    /\ CopyCalled(on, "popBack", TRUE, NULL, "none", s,
                  VectorT_popBack(Called(s)))

CopyReplaceElementAt(on, s, o) ==
    /\ CopyCallable(s)
    /\ \E n \in 0 .. s.nextFree_ - 1, newElement \in Values,
          assignOk \in BOOLEAN :
          LET r == VectorT_replaceElementAt(Called(s), n, newElement,
                                            assignOk)
          IN CopyCalled(on, "replaceElementAt", r.ok, newElement, "none",
                        s, r.self)

SrcPushBack == CopyPushBack("src", vec, dst)

DstPushBack == CopyPushBack("dst", dst, vec)

SrcPopBack == CopyPopBack("src", vec, dst)

DstPopBack == CopyPopBack("dst", dst, vec)

SrcReplaceElementAt == CopyReplaceElementAt("src", vec, dst)

DstReplaceElementAt == CopyReplaceElementAt("dst", dst, vec)

NextCopy ==
    \/ CtorCopy
    \/ SrcPushBack \/ DstPushBack
    \/ SrcPopBack \/ DstPopBack
    \/ SrcReplaceElementAt \/ DstReplaceElementAt

SpecCopy == InitCopy /\ [][NextCopy]_vars

\* --------------------------------------------------------------- MapT ---
\* The map is its mapImpl, an array of items [key, value], together with
\* item_for_insert, the file-scope item insert builds the new pair in.  The
\* copy constructors of the key and value types write nothing when they fail.
\* leaked counts the key and value objects the last call copy-constructed
\* into a file-scope or local item and left there, neither destroyed nor
\* handed to the array.
Keys == 0 .. MaxKey

\* An N__##_Item { key; value } as one number (a member that was never
\* constructed is NULL), and its members; what uninitialised memory holds
\* (NULL) has no constructed member.
ItemOf(key, value) == (key + 1) * (MaxVal + 2) + (value + 1)

KeyOf(item) == IF item = NULL THEN NULL ELSE (item \div (MaxVal + 2)) - 1

ValueOf(item) == IF item = NULL THEN NULL ELSE (item % (MaxVal + 2)) - 1

NoItem == ItemOf(NULL, NULL)

\* The key K__##_isEqual is handed for slot i: NULL when the slot holds no
\* constructed key.
KeyAt(s, i) ==
    IF i \in DOMAIN s.mem /\ s.mem[i].live THEN KeyOf(s.mem[i].val) ELSE NULL

\* Some slot below the length holds no constructed item: what isEqual reads
\* there is indeterminate.
HasJunk(s) == \E i \in 0 .. s.nextFree_ - 1 : KeyAt(s, i) = NULL

\* getIndexOf that starts its scan at index 1.
getIndexOfFromOne(m, key, junk) ==
    LET hits == {i \in 1 .. m.impl.nextFree_ - 1 :
                    \/ KeyAt(m.impl, i) = key
                    \/ KeyAt(m.impl, i) = NULL /\ junk}
    IN IF hits = {} THEN -1
       ELSE CHOOSE i \in hits : \A k \in hits : i <= k

\* getIndexOf: the first index whose key isEqual to key, or -1.  junk is what
\* isEqual returns on a slot that holds no constructed item.
MapT_getIndexOf(m, key, junk) ==
    LET hits == {i \in 0 .. m.impl.nextFree_ - 1 :
                    \/ KeyAt(m.impl, i) = key
                    \/ KeyAt(m.impl, i) = NULL /\ junk}
    IN IF hits = {} THEN -1
       ELSE CHOOSE i \in hits : \A k \in hits : i <= k

MapT_find(m, key, junk) == MapT_getIndexOf(m, key, junk) >= 0

MapT_getSize(m) == VectorT_getSize(m.impl)

\* getValueAt, getKeyAt with 0 <= index < size
MapT_getValueAt(m, index) == ValueOf(m.impl.mem[index].val)

MapT_getKeyAt(m, index) == KeyOf(m.impl.mem[index].val)

\* ctor / ctorStatic
MapT_ctor(cap) ==
    [impl |-> VectorT_ctor(cap), item |-> NoItem, leaked |-> 0]

MapT_ctorStatic(cap) ==
    [impl |-> VectorT_ctorStatic(cap), item |-> NoItem, leaked |-> 0]

\* insert.  kOk, vOk: what K_ctorCopy and V_ctorCopy into item_for_insert
\* return (not looked at); allocOk, failAt, ctorOk: as for pushBackByPtr,
\* whose result is not looked at either.
MapT_insert(m, key, value, kOk, vOk, allocOk, failAt, ctorOk, junk) ==
    IF MapT_find(m, key, junk)
    THEN [self |-> m, ok |-> FALSE]
    ELSE
      LET item == ItemOf(IF kOk THEN key ELSE KeyOf(m.item),
                         IF vOk THEN value ELSE ValueOf(m.item))
          r == VectorT_pushBack(m.impl, item, allocOk, failAt, ctorOk)
      IN [self |-> [impl |-> r.self, item |-> item,
                    leaked |-> (IF kOk THEN 1 ELSE 0) + (IF vOk THEN 1 ELSE 0)],
          ok |-> TRUE]

\* removeAt with 0 <= index < size.  getOk: what the copy inside getElementAt
\* returns (not looked at; the item returned is then the indeterminate
\* junkItem); assignOk: what Item_assign returns (not looked at).
MapT_removeAt(m, index, getOk, junkItem, assignOk) ==
    LET size == MapT_getSize(m)
        tmp == IF getOk /\ m.impl.mem[size - 1].live
               THEN m.impl.mem[size - 1].val
               ELSE junkItem
        replaced == IF index # size - 1
                    THEN VectorT_replaceElementAt(m.impl, index, tmp,
                                                  assignOk).self
                    ELSE m.impl
    IN [m EXCEPT !.impl = VectorT_popBack(replaced),
                 !.leaked = IF index # size - 1 /\ getOk THEN 2 ELSE 0]

\* remove that takes the first pair out when the key is not found.
removeFirstWhenAbsent(m, key, junk, getOk, junkItem, assignOk) ==
    LET index == MapT_getIndexOf(m, key, junk) IN
    IF index < 0 /\ MapT_getSize(m) = 0
    THEN [self |-> m, ok |-> FALSE]
    ELSE [self |-> MapT_removeAt(m, IF index < 0 THEN 0 ELSE index, getOk,
                                 junkItem, assignOk),
          ok |-> index >= 0]

\* remove
MapT_remove(m, key, junk, getOk, junkItem, assignOk) ==
    LET index == MapT_getIndexOf(m, key, junk) IN
    IF index < 0
    THEN [self |-> m, ok |-> FALSE]
    ELSE [self |-> MapT_removeAt(m, index, getOk, junkItem, assignOk),
          ok |-> TRUE]

\* setValueAt that writes the new pair into the slot after index.
setValueAtNext(m, index, newValue, kOk, vOk, assignOk) ==
    IF kOk /\ vOk
    THEN LET newItem == ItemOf(KeyAt(m.impl, index), newValue)
             n == IF index + 1 < MapT_getSize(m) THEN index + 1 ELSE index
             r == VectorT_replaceElementAt(m.impl, n, newItem, assignOk)
         IN [self |-> [m EXCEPT !.impl = r.self,
                                !.leaked = IF r.ok THEN 2 ELSE 0],
             ok |-> r.ok]
    ELSE [self |-> [m EXCEPT !.impl.failed = TRUE], ok |-> FALSE]

\* setValueAt with 0 <= index < size.  kOk, vOk: the copies of the key and of
\* the new value into newItem_for_setValueAt; assignOk: replaceElementAt.
MapT_setValueAt(m, index, newValue, kOk, vOk, assignOk) ==
    IF kOk /\ vOk
    THEN LET newItem == ItemOf(KeyAt(m.impl, index), newValue)
             r == VectorT_replaceElementAt(m.impl, index, newItem, assignOk)
         IN [self |-> [m EXCEPT !.impl = r.self,
                                !.leaked = IF r.ok THEN 2 ELSE 0],
             ok |-> r.ok]
    ELSE [self |-> [m EXCEPT !.impl.failed = TRUE], ok |-> FALSE]

\* clear
MapT_clear(m) == [m EXCEPT !.impl = VectorT_clear(m.impl)]

\* What a call returned, with what it was given and what its environment did.
\* calls counts the calls made so far.
MCall(op, ok, key, value, kOk, vOk, alloc) ==
    [op |-> op, ok |-> ok, key |-> key, value |-> value, kOk |-> kOk,
     vOk |-> vOk, alloc |-> alloc, index |-> NULL, junk |-> FALSE,
     calls |-> IF op = "none" THEN 0 ELSE mres.calls + 1]

NoMCall == MCall("none", FALSE, NULL, NULL, TRUE, TRUE, "none")

MapCallable == Usable(map.impl) /\ mres.calls < MaxMapCalls

MapCalled(m) == [m EXCEPT !.impl = Called(m.impl), !.leaked = 0]

\* A map built by ctor or by ctorStatic, with any capacity.
InitMap ==
    /\ \E cap \in 0 .. MaxVecCap :
          \/ map = MapT_ctor(cap)
          \/ map = MapT_ctorStatic(cap)
    /\ mres = NoMCall
    /\ vec = <<>>
    /\ vres = <<>>
    /\ NoCopies
    /\ NoQueue
    /\ NoRle

Junks(m) == IF HasJunk(m.impl) THEN BOOLEAN ELSE {FALSE}

JunkItems == {ItemOf(k, NULL) : k \in Keys \cup {NULL}}

Insert ==
    /\ MapCallable
    /\ \E key \in Keys, value \in Values, kOk \in BOOLEAN, vOk \in BOOLEAN,
          ctorOk \in BOOLEAN, junk \in Junks(map),
          allocOk \in (IF Grows(map.impl) THEN BOOLEAN ELSE {TRUE}),
          failAt \in (IF Grows(map.impl) THEN 0 .. map.impl.size_
                      ELSE {map.impl.size_}) :
          LET r == MapT_insert(MapCalled(map), key, value, kOk, vOk,
                               allocOk, failAt, ctorOk, junk)
          IN
          /\ map' = r.self
          /\ mres' = [MCall("insert", r.ok, key, value, kOk, vOk,
                            IF ~Grows(map.impl) THEN "none"
                            ELSE IF allocOk THEN "ok" ELSE "failed")
                      EXCEPT !.junk = junk]
    /\ UNCHANGED <<queue, vec, vres, copies, rle>>

RemoveAt ==
    /\ MapCallable
    /\ \E index \in 0 .. MapT_getSize(map) - 1, getOk \in BOOLEAN,
          assignOk \in BOOLEAN :
        \E junkItem \in (IF getOk THEN {NoItem} ELSE JunkItems) :
          /\ map' = MapT_removeAt(MapCalled(map), index, getOk, junkItem,
                                  assignOk)
          /\ mres' = [MCall("removeAt", TRUE, NULL, NULL, TRUE, TRUE,
                            "none")
                      EXCEPT !.index = index]
    /\ UNCHANGED <<queue, vec, vres, copies, rle>>

Remove ==
    /\ MapCallable
    /\ \E key \in Keys, junk \in Junks(map), getOk \in BOOLEAN,
          assignOk \in BOOLEAN :
        \E junkItem \in (IF getOk THEN {NoItem} ELSE JunkItems) :
          LET r == MapT_remove(MapCalled(map), key, junk, getOk, junkItem,
                               assignOk)
          IN
          /\ map' = r.self
          /\ mres' = [MCall("remove", r.ok, key, NULL, TRUE, TRUE, "none")
                      EXCEPT !.junk = junk,
                             !.index = MapT_getIndexOf(map, key, junk)]
    /\ UNCHANGED <<queue, vec, vres, copies, rle>>

SetValueAt ==
    /\ MapCallable
    /\ \E index \in 0 .. MapT_getSize(map) - 1, newValue \in Values,
          kOk \in BOOLEAN, vOk \in BOOLEAN, assignOk \in BOOLEAN :
          LET r == MapT_setValueAt(MapCalled(map), index, newValue, kOk,
                                   vOk, assignOk)
          IN
          /\ map' = r.self
          /\ mres' = [MCall("setValueAt", r.ok, NULL, newValue, kOk, vOk,
                            "none")
                      EXCEPT !.index = index]
    /\ UNCHANGED <<queue, vec, vres, copies, rle>>

MapClear ==
    /\ MapCallable
    /\ map' = MapT_clear(MapCalled(map))
    /\ mres' = MCall("clear", TRUE, NULL, NULL, TRUE, TRUE, "none")
    /\ UNCHANGED <<queue, vec, vres, copies, rle>>

NextMap == Insert \/ RemoveAt \/ Remove \/ SetValueAt \/ MapClear

SpecMap == InitMap /\ [][NextMap]_vars

\* Maps that already hold pairs: what ctor or ctorStatic and then inserts of
\* distinct keys, whose copies all succeeded, have built.
RECURSIVE InsertAll(_, _)
InsertAll(m, pairs) ==
    IF pairs = <<>> THEN m
    ELSE InsertAll(MapT_insert(MapCalled(m), KeyOf(Head(pairs)),
                               ValueOf(Head(pairs)), TRUE, TRUE, TRUE,
                               m.impl.size_, TRUE, FALSE).self,
                   Tail(pairs))

Pairs == {ItemOf(k, v) : k \in Keys, v \in Values}

PairLists ==
    {l \in UNION {[1 .. n -> Pairs] : n \in 0 .. MaxFill} :
        \A i, j \in DOMAIN l : i # j => KeyOf(l[i]) # KeyOf(l[j])}

InitFilled ==
    /\ \E cap \in 0 .. MaxVecCap, pairs \in PairLists :
          /\ \/ map = MapCalled(InsertAll(MapT_ctor(cap), pairs))
             \/ map = MapCalled(InsertAll(MapT_ctorStatic(cap), pairs))
          /\ MapT_getSize(map) = Len(pairs)
    /\ Usable(map.impl)
    /\ mres = NoMCall
    /\ vec = <<>>
    /\ vres = <<>>
    /\ NoCopies
    /\ NoQueue
    /\ NoRle

\* One call on a filled map.
NextFilled == mres.calls = 0 /\ NextMap

SpecMapFilled == InitFilled /\ [][NextFilled]_vars

\* ------------------------------------------------------ RleCompressor ---
\* A buffer is the sequence of its bytes; a position in it is an offset from
\* its start.  A byte no one has written is NULL.
ENCODED_SYMBOL_MAX_SIZE == 5

HEADER_LENGTH == 7

RLECOMPRESSOR_MAX_INPUT_SIZE == Pow2(30) - 1

\* "RLE"
Magic == <<82, 76, 69>>

\* The bytes of buf from offset at on are overwritten with bytes.
WriteAt(buf, at, bytes) ==
    [i \in 1 .. Len(buf) |->
        IF i - 1 >= at /\ i - 1 < at + Len(bytes) THEN bytes[i - at]
        ELSE buf[i]]

\* BitConverter_putUint32LE: the four bytes written, lowest first.
BitConverter_putUint32LE(arg) ==
    <<arg % 256, (arg \div 256) % 256, (arg \div 65536) % 256,
      (arg \div 16777216) % 256>>

\* BitConverter_getUint32LE on the four bytes b, read through a char*: where
\* char is signed (signedChar) a byte above 127 is sign-extended by the cast
\* to uint32_t and sets every higher byte of the result.  A result of 2^31 or
\* more is given as 2^31 - 1.
BitConverter_getUint32LE(b, signedChar) ==
    LET byte(k) == IF \E i \in 1 .. k - 1 : signedChar /\ b[i] >= 128
                   THEN 255 ELSE b[k]
    IN IF byte(4) >= 128 THEN (Pow2(30) - 1) + Pow2(30)
       ELSE byte(1) + byte(2) * 256 + byte(3) * 65536 + byte(4) * 16777216

\* lenSerializeOpt: the bytes written at p.
lenSerializeOpt(len) ==
    IF len < Pow2(6) THEN <<len % 64>>
    ELSE IF len < Pow2(14) THEN <<64 + ((len \div 256) % 64), len % 256>>
    ELSE IF len < Pow2(22)
    THEN <<128 + ((len \div 65536) % 64), (len \div 256) % 256, len % 256>>
    ELSE <<192 + ((len \div 16777216) % 64), (len \div 65536) % 256,
           (len \div 256) % 256, len % 256>>

\* lenDeserializeOpt at offset p of buf: the length and the offset after it;
\* ub when a byte it reads lies outside buf.
lenDeserializeOpt(buf, p) ==
    LET n == IF p < Len(buf) THEN (buf[p + 1] \div 64) + 1 ELSE 1
        b(i) == buf[p + 1 + i]
    IN IF p + n > Len(buf)
       THEN [len |-> 0, p |-> p + n, ub |-> TRUE]
       ELSE [len |-> IF n = 4
                     THEN (b(0) % 64) * 16777216 + b(1) * 65536 + b(2) * 256
                          + b(3)
                     ELSE IF n = 3
                     THEN (b(0) % 64) * 65536 + b(1) * 256 + b(2)
                     ELSE IF n = 2 THEN (b(0) % 64) * 256 + b(1)
                     ELSE b(0) % 64,
             p |-> p + n, ub |-> FALSE]

OS_SUCCESS == "OS_SUCCESS"

OS_ERROR_INVALID_PARAMETER == "OS_ERROR_INVALID_PARAMETER"

OS_ERROR_BUFFER_TOO_SMALL == "OS_ERROR_BUFFER_TOO_SMALL"

OS_ERROR_INSUFFICIENT_SPACE == "OS_ERROR_INSUFFICIENT_SPACE"

OS_ERROR_ABORTED == "OS_ERROR_ABORTED"

\* How often the symbol at offset ip occurs in sequence from there on.
RunLength(buf, ip) ==
    CHOOSE n \in 1 .. Len(buf) - ip :
        /\ \A k \in 0 .. n - 1 : buf[ip + 1 + k] = buf[ip + 1]
        /\ ip + n = Len(buf) \/ buf[ip + 1 + n] # buf[ip + 1]

\* compressLoop: ibuf ends at iBoundary, obuf at oBoundary.  ub when the
\* input pointer is NULL and a symbol is read through it.
RECURSIVE compressLoop(_, _, _, _, _, _)
compressLoop(ibuf, ibufNull, iBoundary, ip, obuf, op) ==
    IF ~(ip < iBoundary)
    THEN [err |-> OS_SUCCESS, obuf |-> obuf, ub |-> FALSE]
    ELSE IF op + ENCODED_SYMBOL_MAX_SIZE >= Len(obuf)
    THEN [err |-> OS_ERROR_ABORTED, obuf |-> obuf, ub |-> FALSE]
    ELSE IF ibufNull
    THEN [err |-> OS_SUCCESS, obuf |-> obuf, ub |-> TRUE]
    ELSE LET sym == ibuf[ip + 1]
             slen == RunLength(ibuf, ip)
             enc == lenSerializeOpt(slen) \o <<sym>>
         IN compressLoop(ibuf, ibufNull, iBoundary, ip + slen,
                         WriteAt(obuf, op, enc), op + Len(enc))

\* decompressLoop: obuf is the output buffer, olen the offset of oBoundary
\* in it.  ub when a read falls outside ibuf or a write outside obuf.
RECURSIVE decompressLoop(_, _, _, _, _)
decompressLoop(ibuf, ip, obuf, op, olen) ==
    IF ~(ip < Len(ibuf))
    THEN [err |-> OS_SUCCESS, obuf |-> obuf, ub |-> FALSE]
    ELSE LET d == lenDeserializeOpt(ibuf, ip) IN
         IF d.ub
         THEN [err |-> OS_SUCCESS, obuf |-> obuf, ub |-> TRUE]
         ELSE IF d.len + op > olen
         THEN [err |-> OS_ERROR_ABORTED, obuf |-> obuf, ub |-> FALSE]
         ELSE IF ~(d.p < Len(ibuf)) \/ op + d.len > Len(obuf)
         THEN [err |-> OS_SUCCESS, obuf |-> obuf, ub |-> TRUE]
         ELSE decompressLoop(ibuf, d.p + 1,
                             WriteAt(obuf, op,
                                     [k \in 1 .. d.len |-> ibuf[d.p + 1]]),
                             op + d.len, olen)

\* The arguments of a call: ibuf, olen and obuf are pointers that may be NULL
\* (ibufNull, olenNull, obufNull); olen is what *olen holds, obuf the buffer
\* *obuf points to (<<>> when it points to none).
RleArgs(ilen, ibuf, ibufNull, osz, olen, olenNull, obuf, obufNull) ==
    [ilen |-> ilen, ibuf |-> ibuf, ibufNull |-> ibufNull, osz |-> osz,
     olen |-> olen, olenNull |-> olenNull, obuf |-> obuf,
     obufNull |-> obufNull]

\* What a call returns and leaves in *olen and *obuf.
RleRet(err, olen, obuf) ==
    [err |-> err, olen |-> olen, obuf |-> obuf, ub |-> FALSE]

\* The call has dereferenced NULL or left a buffer: anything may follow.
RleUndefined == [err |-> "undefined", olen |-> 0, obuf |-> <<>>, ub |-> TRUE]

NoRleRet == [err |-> "none", olen |-> 0, obuf |-> <<>>, ub |-> FALSE]

isCompressParametersOk(a) == ~(a.ibufNull \/ a.olenNull \/ a.obufNull)

isDecompressParametersOk(a) ==
    IF \/ a.ibufNull \/ a.olenNull \/ a.obufNull
       \/ a.ilen > RLECOMPRESSOR_MAX_INPUT_SIZE
    THEN FALSE
    ELSE IF /\ a.ilen >= Len(Magic)
            /\ SubSeq(a.ibuf, 1, Len(Magic)) # Magic
    THEN FALSE
    ELSE TRUE

\* RleCompressor_compress.  mallocOk: malloc returns a buffer.
RleCompressor_compress(a, mallocOk) ==
    IF isCompressParametersOk(a)
    THEN RleRet(OS_ERROR_INVALID_PARAMETER, a.olen, a.obuf)
    ELSE IF a.osz # 0 /\ a.osz < HEADER_LENGTH
    THEN RleRet(OS_ERROR_BUFFER_TOO_SMALL, a.olen, a.obuf)
    ELSE IF a.obufNull
    THEN RleUndefined
    ELSE IF a.osz = 0 /\ ~mallocOk
    THEN RleRet(OS_ERROR_INSUFFICIENT_SPACE, a.olen, <<>>)
    ELSE
      LET sz == IF a.osz # 0 THEN a.osz ELSE 2 * a.ilen + HEADER_LENGTH
          buf == IF a.osz # 0 THEN a.obuf ELSE [i \in 1 .. sz |-> NULL]
          header == Magic \o BitConverter_putUint32LE(a.ilen)
          \* op after the header; compressLoop advances a copy of it
          op == Len(header)
          r == compressLoop(a.ibuf, a.ibufNull, a.ilen, 0,
                            WriteAt(buf, 0, header), op)
      IN IF r.ub
         THEN RleUndefined
         ELSE IF r.err # OS_SUCCESS
         THEN RleRet(r.err, a.olen, IF a.osz = 0 THEN <<>> ELSE r.obuf)
         ELSE IF a.olenNull
         THEN RleUndefined
         ELSE RleRet(OS_SUCCESS, op,
                     IF a.osz = 0 THEN SubSeq(r.obuf, 1, op) ELSE r.obuf)

\* RleCompressor_decompress.  signedChar: char is a signed type.
RleCompressor_decompress(a, mallocOk, signedChar) ==
    IF isDecompressParametersOk(a)
    THEN RleRet(OS_ERROR_INVALID_PARAMETER, a.olen, a.obuf)
    ELSE IF a.ilen < HEADER_LENGTH
    THEN RleRet(OS_ERROR_BUFFER_TOO_SMALL, a.olen, a.obuf)
    ELSE IF a.ibufNull \/ Len(a.ibuf) < 4
    THEN RleUndefined
    ELSE
      LET my_olen == BitConverter_getUint32LE(SubSeq(a.ibuf, 1, 4),
                                              signedChar)
      IN IF a.osz # 0 /\ my_olen > a.osz
         THEN RleRet(OS_ERROR_BUFFER_TOO_SMALL, a.olen, a.obuf)
         ELSE IF a.osz = 0 /\ ~mallocOk
         THEN RleRet(OS_ERROR_INSUFFICIENT_SPACE, a.olen, a.obuf)
         ELSE IF a.obufNull \/ a.olenNull
         THEN RleUndefined
         ELSE
           LET olen == IF a.osz = 0 THEN my_olen ELSE a.olen
               buf == IF a.osz = 0 THEN [i \in 1 .. my_olen |-> NULL]
                      ELSE a.obuf
               r == decompressLoop(SubSeq(a.ibuf, 1, a.ilen), 4, buf, 0,
                                   olen)
           IN IF r.ub \/ a.ilen > Len(a.ibuf)
              THEN RleUndefined
              ELSE IF r.err # OS_SUCCESS /\ a.osz = 0
              THEN RleRet(r.err, 0, <<>>)
              ELSE RleRet(r.err, olen, r.obuf)

\* The input sequences, and a caller's output buffer that is large enough
\* for the compressed form of each.
RleInputs == UNION {[1 .. n -> Values] : n \in 0 .. MaxRleLen}

OutSize == 2 * MaxRleLen + HEADER_LENGTH + ENCODED_SYMBOL_MAX_SIZE + 1

CallerBuffer == [i \in 1 .. OutSize |-> 0]

OutSizes == {0, OutSize}

\* The arguments a caller has prepared for compress: an input sequence or a
\* NULL input, an output buffer of its own or none (osz == 0).
InitRle ==
    /\ \E ibufNull \in BOOLEAN, osz \in OutSizes, olenNull \in BOOLEAN,
          obufNull \in BOOLEAN :
        \E ibuf \in (IF ibufNull THEN {<<>>} ELSE RleInputs),
           ilen \in 0 .. MaxRleLen :
          /\ ~ibufNull => ilen = Len(ibuf)
          /\ rle = [stage |-> "input",
                    args |-> RleArgs(ilen, ibuf, ibufNull, osz, 0, olenNull,
                                     IF osz = 0 \/ obufNull THEN <<>>
                                     ELSE CallerBuffer,
                                     obufNull),
                    ret |-> NoRleRet,
                    dargs |-> RleArgs(0, <<>>, TRUE, 0, 0, TRUE, <<>>, TRUE),
                    dret |-> NoRleRet]
    /\ NoQueue
    /\ vec = <<>>
    /\ vres = <<>>
    /\ NoCopies
    /\ NoMaps

Compress ==
    /\ rle.stage = "input"
    /\ \E mallocOk \in (IF rle.args.osz = 0 THEN BOOLEAN ELSE {TRUE}) :
          rle' = [rle EXCEPT
                    !.stage = "compressed",
                    !.ret = RleCompressor_compress(rle.args, mallocOk)]
    /\ UNCHANGED <<queue, vec, vres, copies, maps>>

\* decompress is handed what compress returned, as the test does after it
\* has seen OS_SUCCESS.
Decompress ==
    /\ rle.stage = "compressed"
    /\ rle.ret.err = OS_SUCCESS
    /\ \E osz \in OutSizes, olenNull \in BOOLEAN, obufNull \in BOOLEAN,
          signedChar \in BOOLEAN :
        \E mallocOk \in (IF osz = 0 THEN BOOLEAN ELSE {TRUE}) :
          LET a == RleArgs(rle.ret.olen, rle.ret.obuf, FALSE, osz,
                           rle.ret.olen, olenNull,
                           IF osz = 0 \/ obufNull THEN <<>>
                           ELSE CallerBuffer,
                           obufNull)
          IN rle' = [rle EXCEPT
                       !.stage = "decompressed",
                       !.dargs = a,
                       !.dret = RleCompressor_decompress(a, mallocOk,
                                                         signedChar)]
    /\ UNCHANGED <<queue, vec, vres, copies, maps>>

NextRle == Compress \/ Decompress

SpecRle == InitRle /\ [][NextRle]_vars

\* ----------------------------------------------------------- properties ---
\* The elements from the oldest to the newest, as the cursors and the size
\* give them.
Contents(s) ==
    [k \in 1 .. getSize(s) |-> s.fifo[(s.first + k - 1) % s.capacity]]

IsPrefix(a, b) ==
    /\ Len(a) <= Len(b)
    /\ \A k \in 1 .. Len(a) : a[k] = b[k]

AllIdle == \A t \in Threads : pc[t] = "idle"

\* C1: one producer that only pushes (retrying) and one consumer that only
\* calls isEmpty and getAndPop, under every interleaving of their reads and
\* writes: the consumer obtains the items in the order the producer pushed
\* them, none lost, none twice (what it has obtained is always a prefix of what
\* was pushed, and is all of it when both loops have ended), the producer
\* writes no slot that still holds an element, and no assertion fails.
C1_SpscOrder ==
    /\ IsPrefix(got, sent)
    /\ \A k \in 1 .. Len(sent) : sent[k] = k - 1
    /\ (pc["producer"] = "push_chk" /\ ~Local("producer").ok)
          => last \notin live
    /\ (pc["consumer"] = "getAndPop_deref" /\ Local("consumer").rv # NULL)
          => Local("consumer").rv \in live
    /\ (AllIdle /\ Len(sent) = NItems /\ Len(got) = NItems) => got = sent
    /\ ~asserted

\* C1 witness: the producer is about to publish an item into a ring that has
\* gone round while the consumer is in the middle of a pop.
C1_Witness ==
    /\ capacity >= 2
    /\ pc["producer"] = "push_in_wr"
    /\ pc["consumer"] = "pop_out_wr"
    /\ Len(sent) > capacity
    /\ Len(got) >= 2

\* C2: under every interleaving of a pushing producer and a popping consumer
\* 0 <= in - out <= capacity, in - out is the number of successful pushes minus
\* that of successful pops, and getSize() called between operations returns
\* that number.
C2_SizeInvariant ==
    /\ 0 <= in - out
    /\ in - out <= capacity
    /\ in - out = pushes - pops
    /\ AllIdle => getSize(Self) = pushes - pops

\* C2 witness: between operations, a full queue after the ring has gone round.
C2_Witness ==
    /\ AllIdle
    /\ capacity >= 2
    /\ pops >= 2
    /\ getSize(Self) = capacity

\* C3: for capacity >= 1 every single-threaded call refines the bounded FIFO
\* sequence: the elements between the cursors are that sequence, a successful
\* push appends its item, a successful pop, an eviction and getAndPop remove
\* the head, getAndPop returns the head, clear empties, a failed call changes
\* nothing, and getFirst() points at the head or is NULL when there is none.
C3_Abstraction ==
    /\ Contents(Self) = absq
    /\ Len(absq) <= capacity
    /\ getFirst(Self) = (IF absq = <<>> THEN NULL ELSE first)
    /\ absq # <<>> => fifo[getFirst(Self)] = Head(absq)

C3_Step ==
    LET old == Contents(Self)
        new == Contents(Self)'
        rest == SubSeq(old, 2, Len(old))
    IN  CASE res'.op = "push" ->
                new = (IF res'.ok THEN Append(old, res'.item) ELSE old)
          [] res'.op = "pop" ->
                /\ res'.ok = (old # <<>>)
                /\ new = rest
          [] res'.op = "getAndPop" ->
                /\ old # <<>>
                /\ res'.item = Head(old)
                /\ new = rest
          [] res'.op = "forcedPush" ->
                new = Append(IF Len(old) = capacity THEN rest ELSE old, res'.item)
          [] res'.op = "clear" -> new = <<>>
          [] OTHER -> FALSE

C3_RefinesFifo == [][capacity >= 1 => (C3_Step /\ C3_Abstraction')]_vars

\* C3 witness: getAndPop has returned an element read after the ring went round.
C3_Witness ==
    /\ res.op = "getAndPop"
    /\ capacity >= 2
    /\ pops > capacity
    /\ absq # <<>>

AllConsumed ==
    /\ AllIdle
    /\ Len(sent) = NItems
    /\ Len(got) = NItems
    /\ isEmpty(Self)

\* C4 as stated: under weak fairness of both threads the run of NItems items
\* completes with the queue empty, from the empty and from the full queue, for
\* every capacity.
C4_Completes == <>AllConsumed

\* C4 as amended: the same for every capacity >= 1.
C4_CompletesPositiveCapacity == (capacity >= 1) => <>AllConsumed

\* C4 witness: the run that started on the full queue has completed.
C4_Witness ==
    /\ AllConsumed
    /\ res.op = "fillFifo"
    /\ capacity >= 2

\* C5 as stated: push on a queue with getSize() == capacity returns false,
\* changes no field and no slot, and leaves the queue full and not empty.
C5_PushOnFull ==
    [][(res'.op = "push" /\ getSize(Self) = capacity)
          => /\ ~res'.ok
             /\ UNCHANGED <<fifo, first, last, in, out, capacity>>
             /\ isFull(Self)'
             /\ ~isEmpty(Self)']_vars

\* C5 as amended: the same, the queue being not empty afterwards when its
\* capacity is at least 1 (a queue of capacity 0 is full and empty at once).
C5_PushOnFullAmended ==
    [][(res'.op = "push" /\ getSize(Self) = capacity)
          => /\ ~res'.ok
             /\ UNCHANGED <<fifo, first, last, in, out, capacity>>
             /\ isFull(Self)'
             /\ (capacity >= 1 => ~isEmpty(Self)')]_vars

\* C5 witness: a push has been refused by a full queue that holds elements.
C5_Witness ==
    /\ res.op = "push"
    /\ ~res.ok
    /\ capacity >= 2
    /\ getSize(Self) = capacity
    /\ pops >= 1

\* C6: pop on an empty queue (in == out) returns false, calls no destructor
\* and changes no field and no slot; pop on a non-empty queue returns true,
\* destroys exactly the element at slot first, advances first to
\* (first + 1) mod capacity and increments out by one.
C6_Pop ==
    [][res'.op = "pop"
          => IF in = out
             THEN /\ ~res'.ok
                  /\ dtors' = dtors
                  /\ UNCHANGED <<fifo, first, last, in, out, capacity, live>>
             ELSE /\ res'.ok
                  /\ first \in live
                  /\ live' = live \ {first}
                  /\ dtors' = dtors + 1
                  /\ first' = (first + 1) % capacity
                  /\ out' = (out + 1) % SizeMod
                  /\ UNCHANGED <<fifo, last, in, capacity>>]_vars

\* C6 witness: a pop has succeeded and moved first from the last slot to slot 0.
C6_Witness ==
    /\ res.op = "pop"
    /\ res.ok
    /\ capacity >= 2
    /\ first = 0
    /\ pops >= capacity

\* C7: forcedPush on a full queue returns true, keeps the size at capacity,
\* drops the oldest element and appends item, so that the second-oldest is
\* the new first; on a non-full queue it returns false, evicts nothing and
\* appends item.
C7_ForcedPush ==
    [][res'.op = "forcedPush"
          => LET old == Contents(Self)
                 new == Contents(Self)'
             IN  IF getSize(Self) = capacity
                 THEN /\ res'.ok
                      /\ getSize(Self)' = capacity
                      /\ new = Append(SubSeq(old, 2, Len(old)), res'.item)
                 ELSE /\ ~res'.ok
                      /\ pops' = pops
                      /\ new = Append(old, res'.item)]_vars

\* C8: after forcedPush, on any queue the constructor accepted, no
\* Debug_ASSERT has failed: the inner push returned true.
C8_ForcedPushStores == res.op = "forcedPush" => ~asserted

\* C9: after in has wrapped and out has not, getSize() is still the number of
\* pushes minus the number of pops, and isFull() is true exactly when that
\* number is the capacity.
C9_SizeAcrossWrap ==
    (0 <= pushes - pops /\ pushes - pops <= capacity)
       => /\ getSize(Self) = pushes - pops
          /\ isFull(Self) = (pushes - pops = capacity)

\* C10: first and out are written by the consumer thread only, last and in by
\* the producer thread only.
C10_SingleWriter ==
    /\ writers["first"] \subseteq {"consumer"}
    /\ writers["out"] \subseteq {"consumer"}
    /\ writers["last"] \subseteq {"producer"}
    /\ writers["in"] \subseteq {"producer"}

\* What a call of ctor leaves: after true the zeroed queue of the capacity
\* passed in, isFull() being as notFull says; after false (the NULL buffer)
\* no slot and the other fields as they were.
C11_CtorBody(notFull) ==
    /\ res'.ok = (res'.buffer # NULL)
    /\ IF res'.ok
       THEN /\ in' = 0 /\ out' = 0 /\ first' = 0 /\ last' = 0
            /\ capacity' = res'.item
            /\ getCapacity(Self)' = res'.item
            /\ isEmpty(Self)'
            /\ notFull
            /\ getSize(Self)' = 0
            /\ getFirst(Self)' = NULL
            /\ DOMAIN fifo' = 0 .. res'.item - 1
       ELSE /\ fifo' = <<>>
            /\ UNCHANGED <<first, last, in, out, capacity>>

\* C11 as stated: ctor with a non-NULL buffer returns true and leaves
\* in = out = first = last = 0 and the capacity passed in, a queue that is
\* empty, not full, of size 0, with getFirst() NULL; ctor with a NULL buffer
\* returns false.
C11_Ctor == [][res'.op = "ctor" => C11_CtorBody(~isFull(Self)')]_vars

\* C11 as amended: the same, isFull() being false when the capacity passed in
\* is at least 1 (with capacity 0 the new queue is full).
C11_CtorAmended ==
    [][res'.op = "ctor"
          => C11_CtorBody(isFull(Self)' = (res'.item = 0))]_vars

\* C11 witness: ctor has returned true on an object whose fields held garbage
\* and whose capacity is now 2 or more.
C11_Witness ==
    /\ res.op = "ctor"
    /\ res.ok
    /\ capacity >= 2
    /\ in = 0

\* C12 as stated: in every reachable state isEmpty() is true exactly when
\* in == out, isFull() exactly when getSize() == capacity, and the queue is
\* never empty and full at once.
C12_States ==
    /\ isEmpty(Self) = (in = out)
    /\ isFull(Self) = (getSize(Self) = capacity)
    /\ ~(isEmpty(Self) /\ isFull(Self))

\* C12 as amended: the same, empty and full excluding each other when the
\* capacity is at least 1 (a queue of capacity 0 is always both).
C12_StatesAmended ==
    /\ isEmpty(Self) = (in = out)
    /\ isFull(Self) = (getSize(Self) = capacity)
    /\ (isEmpty(Self) /\ isFull(Self)) = (capacity = 0)

\* C12 witness: a full queue that has gone round, after a refused push.
C12_Witness ==
    /\ isFull(Self)
    /\ ~isEmpty(Self)
    /\ capacity >= 2
    /\ pops >= 1
    /\ res.op = "push"
    /\ ~res.ok
    /\ first # 0

\* C13: clear() with no concurrent push returns after at most getSize() pops
\* and leaves the queue empty: in == out, getSize() == 0, getFirst() == NULL,
\* the capacity and the buffer as they were.
C13_Clear ==
    [][res'.op = "clear"
          => /\ pops' - pops <= getSize(Self)
             /\ pops' - pops = Len(absq)
             /\ dtors' - dtors = pops' - pops
             /\ in' = out'
             /\ isEmpty(Self)'
             /\ getSize(Self)' = 0
             /\ getFirst(Self)' = NULL
             /\ live' = {}
             /\ UNCHANGED <<capacity, fifo>>]_vars

\* C13 witness: clear has emptied a queue that had gone round and held two or
\* more elements (every element popped so far, and not a multiple of capacity).
C13_Witness ==
    /\ res.op = "clear"
    /\ capacity >= 2
    /\ pops = pushes
    /\ pops > capacity
    /\ first # 0

\* The number of calls constApply is to make on n elements: up to and
\* including the first position at which fn returns false.
C14_Expected(fn, n) ==
    LET stop == {p \in 0 .. n - 1 : ~fn[p]} IN
    IF stop = {} THEN n ELSE (CHOOSE p \in stop : \A q \in stop : p <= q) + 1

\* C14: with no concurrent access constApply calls fn once per element from
\* the oldest to the newest with pos = 0, 1, 2, .., makes no call after the
\* first one in which fn returns false, returns the number of calls made and
\* leaves in, out, first, last and the buffer unchanged.
C14_ConstApply ==
    [][res'.op = "constApply"
          => LET old == Contents(Self)
                 n == C14_Expected(res'.fn, Len(old))
             IN  /\ res'.item = n
                 /\ Len(res'.made) = n
                 /\ \A k \in 1 .. n :
                       /\ res'.made[k].pos = k - 1
                       /\ res'.made[k].c = old[k]
                       /\ res'.made[k].slot = (first + k - 1) % capacity
                 /\ UNCHANGED <<fifo, first, last, in, out, capacity>>]_vars

\* C14 witness: constApply has gone over the end of the buffer and was
\* stopped by fn before the newest element.
C14_Witness ==
    /\ res.op = "constApply"
    /\ res.item >= 2
    /\ res.item < getSize(Self)
    /\ first + res.item > capacity

\* C15: while the producer pushes, every call of fn made by the consumer's
\* constApply is handed a slot that holds a published element: the call at
\* position i gets the i-th oldest element, at slot (first + i) mod capacity,
\* within the size the traversal read, and never the slot the producer is
\* writing or has not yet published.
C15_ApplyWhilePushing ==
    pc["consumer"] = "apply_fn"
       => LET l == Local("consumer")
              k == pops + l.i + 1
          IN  /\ l.i < l.size
              /\ l.size <= Len(sent) - pops
              /\ l.size <= capacity
              /\ l.tmp = (first + l.i) % capacity
              /\ l.tmp \in live
              /\ fifo[l.tmp] = sent[k]
              /\ pc["producer"] \in {"push_last", "push_last_wr", "push_in",
                                     "push_in_wr"}
                    => l.tmp # (first + Len(sent) - pops) % capacity

\* C15 witness: fn is called on the slot before the one the producer has
\* written and not yet published, in a ring that has gone round.
C15_Witness ==
    /\ pc["consumer"] = "apply_fn"
    /\ pc["producer"] = "push_in_wr"
    /\ capacity >= 2
    /\ pops >= 1
    /\ Local("consumer").i >= 1
    /\ Local("consumer").i = Len(sent) - pops - 1

\* The four push operations of the array.
PushOps == {"pushBack", "pushBackByPtr", "pushBackMove", "pushBackMoveByPtr"}

\* C16: for every array built by ctor (any initial capacity, 0 included) or
\* ctorStatic, after any sequence of pushes, popBack, clear and
\* replaceElementAt, nextFree_ <= size_ holds and no push has constructed an
\* element at an index >= size_.
C16_LengthWithinCapacity ==
    /\ vec.nextFree_ <= vec.size_
    /\ ~vec.oob

\* C17: on a heap-mode array constructed with capacity >= 1, as long as no
\* allocation and no element copy has failed, every push has returned true,
\* getSize() is the number of elements pushed and getElementAt(i) is the i-th
\* of them for every i below it, whatever number of growth events they have
\* been through (until the array is destroyed).
C17_GrowthKeepsValues ==
    (~vec.isStatic_ /\ vec.size_ >= 1 /\ ~vec.failed /\ ~vec.destructed) =>
        /\ vres.op \in PushOps => vres.ok
        /\ VectorT_getSize(vec) = Len(vec.abs)
        /\ \A i \in 0 .. Len(vec.abs) - 1 :
              VectorT_getElementAt(vec, i) = vec.abs[i + 1]

\* C17 witness: three values pushed into an array constructed with capacity 1,
\* which has grown twice (buffers 1, 2 and 3), the last call being a push.
C17_Witness ==
    /\ ~vec.isStatic_
    /\ ~vec.failed
    /\ vec.allocs = 3
    /\ vec.size_ = 4
    /\ vec.abs = <<0, 1, 0>>
    /\ VectorT_getSize(vec) = 3
    /\ vres.op = "pushBack"
    /\ vres.ok

\* C18: a push on a heap-mode array whose length equals its capacity C, the
\* allocation and all copies succeeding, leaves capacity 2 * C and length
\* C + 1 with the pushed value at index C inside the allocated buffer; a push
\* on an array with length < capacity changes neither capacity nor buffer.
C18_GrowthDoubles ==
    [][vres'.op \in PushOps =>
          /\ (~vec.isStatic_ /\ vec.nextFree_ = vec.size_ /\ vres'.ok) =>
                /\ vec'.size_ = 2 * vec.size_
                /\ vec'.nextFree_ = vec.size_ + 1
                /\ vec.size_ \in DOMAIN vec'.mem
                /\ vec'.mem[vec.size_] = [val |-> vres'.item, live |-> TRUE]
                /\ ~vec'.oob
          /\ vec.nextFree_ < vec.size_ =>
                /\ vec'.size_ = vec.size_
                /\ vec'.vector_ = vec.vector_]_vars

\* C19: on an array bound by ctorStatic to a buffer of capacity C, a push made
\* while fewer than C elements are stored succeeds when no element copy fails
\* and stores the value at the end; every push made when C elements are stored
\* returns false, and getSize() stays C with the buffer, the capacity and all
\* C stored elements unchanged.
C19_StaticBound ==
    [][(vec.isStatic_ /\ vres'.op \in PushOps) =>
          /\ (vec.nextFree_ < vec.size_ /\ ~vec'.failed) =>
                /\ vres'.ok
                /\ VectorT_getSize(vec') = VectorT_getSize(vec) + 1
                /\ VectorT_getElementAt(vec', vec.nextFree_) = vres'.item
                /\ \A i \in 0 .. vec.nextFree_ - 1 :
                      vec'.mem[i] = vec.mem[i]
          /\ vec.nextFree_ >= vec.size_ =>
                /\ ~vres'.ok
                /\ VectorT_getSize(vec') = vec.size_
                /\ vec'.mem = vec.mem
          /\ vec'.size_ = vec.size_
          /\ vec'.vector_ = vec.vector_
          /\ vec'.isStatic_]_vars

\* C19 witness: a static array of capacity 2 holding the two values pushed
\* into it, on which a further push has just returned false.
C19_Witness ==
    /\ vec.isStatic_
    /\ vec.size_ = 2
    /\ ~vec.failed
    /\ VectorT_getSize(vec) = 2
    /\ vec.abs = <<0, 1>>
    /\ VectorT_getElementAt(vec, 0) = 0
    /\ VectorT_getElementAt(vec, 1) = 1
    /\ vres.op = "pushBack"
    /\ ~vres.ok

\* C20: whenever pushBack, pushBackByPtr, pushBackMove or pushBackMoveByPtr
\* returns false (static and full, allocation failed, a copy failed during
\* growth, or the copy or move of the new element failed), the length and the
\* value of every element in [0, length) are the same as before the call.
C20_FailedPushChangesNothing ==
    [][(vres'.op \in PushOps /\ ~vres'.ok) =>
          /\ VectorT_getSize(vec') = VectorT_getSize(vec)
          /\ \A i \in 0 .. VectorT_getSize(vec) - 1 :
                /\ i \in DOMAIN vec'.mem
                /\ VectorT_getElementAt(vec', i) = VectorT_getElementAt(vec, i)
                /\ vec'.mem[i].live]_vars

\* C21: when a push on a full heap-mode array gets no buffer for the growth
\* (Memory_alloc returns NULL, or twice the capacity exceeds Vector_MAX_SIZE
\* and no allocation is attempted), the push returns false, the buffer
\* pointer, capacity, length and every stored element are as before the call,
\* nothing is freed and no element destructor is called.
C21_RefusedGrowthChangesNothing ==
    [][(/\ vres'.op \in PushOps
        /\ ~vec.isStatic_
        /\ vec.nextFree_ = vec.size_
        /\ vres'.alloc # "ok") =>
          /\ ~vres'.ok
          /\ vec'.vector_ = vec.vector_
          /\ vec'.size_ = vec.size_
          /\ vec'.nextFree_ = vec.nextFree_
          /\ vec'.mem = vec.mem
          /\ vec'.freed = vec.freed
          /\ vec'.allocs = vec.allocs
          /\ vec'.dtorLog = <<>>]_vars

\* C21 witness: a push on a heap-mode array holding two elements in a buffer
\* of two, for which Memory_alloc has just returned NULL.
C21_Witness ==
    /\ vres.op = "pushBack"
    /\ vres.alloc = "failed"
    /\ ~vres.ok
    /\ ~vec.isStatic_
    /\ vec.size_ = 2
    /\ vec.abs = <<0, 1>>
    /\ VectorT_getSize(vec) = 2
    /\ VectorT_getElementAt(vec, 1) = 1

\* C22: after any sequence of array operations, calls that returned false
\* included, every slot at an index in [0, length) holds an element that has
\* been constructed and not yet destroyed, and no slot at an index >= length
\* holds a live element.
C22_LiveExactlyBelowLength ==
    /\ \A i \in 0 .. vec.nextFree_ - 1 :
          /\ i \in DOMAIN vec.mem
          /\ vec.mem[i].live
    /\ \A i \in DOMAIN vec.mem : vec.mem[i].live => i < vec.nextFree_
    /\ ~vec.baddtor
    /\ ~vec.badcopy

\* The array s with the record of the destructor calls of its last call left
\* out.
Fields_(s) == [s EXCEPT !.dtorLog = <<>>]

\* C25: clear() calls the destructor exactly once on each of the length
\* elements (no live element is left, none is destroyed twice) and sets the
\* length to 0, leaving capacity, buffer pointer and isStatic unchanged;
\* popBack on an empty array changes nothing, and on a non-empty array destroys
\* only the last element and decrements the length by one.
C25_ClearAndPopBack ==
    [][/\ vres'.op = "clear" =>
            /\ vec'.dtorLog = DtorCallsUp(vec.vector_, 0, vec.nextFree_ - 1)
            /\ vec'.nextFree_ = 0
            /\ \A i \in DOMAIN vec'.mem : ~vec'.mem[i].live
            /\ (\A i \in 0 .. vec.nextFree_ - 1 : vec.mem[i].live)
                  => vec'.baddtor = vec.baddtor
            /\ vec'.size_ = vec.size_
            /\ vec'.vector_ = vec.vector_
            /\ vec'.isStatic_ = vec.isStatic_
            /\ vec'.freed = vec.freed
       /\ (vres'.op = "popBack" /\ vec.nextFree_ = 0) =>
            Fields_(vec') = Fields_(vec) /\ vec'.dtorLog = <<>>
       /\ (vres'.op = "popBack" /\ vec.nextFree_ > 0) =>
            /\ vec'.dtorLog
                  = <<[buf |-> vec.vector_, idx |-> vec.nextFree_ - 1]>>
            /\ vec'.nextFree_ = vec.nextFree_ - 1
            /\ ~vec'.mem[vec.nextFree_ - 1].live
            /\ \A i \in 0 .. vec.nextFree_ - 2 : vec'.mem[i] = vec.mem[i]
            /\ vec'.size_ = vec.size_
            /\ vec'.vector_ = vec.vector_
            /\ vec'.isStatic_ = vec.isStatic_
            /\ vec'.freed = vec.freed]_vars

\* C25 witness: clear() has just destroyed the two elements of an array of
\* capacity 2, one destructor call each.
C25_Witness ==
    /\ vres.op = "clear"
    /\ vec.size_ = 2
    /\ VectorT_getSize(vec) = 0
    /\ Len(vec.dtorLog) = 2
    /\ vec.dtorLog[1].idx = 0
    /\ vec.dtorLog[2].idx = 1
    /\ ~vec.baddtor

\* C26: for an array bound by ctorStatic, no sequence of pushes, popBack,
\* replaceElementAt, clear and dtor calls allocates or frees memory, and the
\* buffer pointer, the capacity and isStatic == true never change.
C26_StaticNeverAllocates ==
    [][vec.isStatic_ =>
          /\ vres'.alloc = "none"
          /\ vec'.allocs = vec.allocs
          /\ vec'.freed = vec.freed
          /\ vec'.vector_ = vec.vector_
          /\ vec'.size_ = vec.size_
          /\ vec'.isStatic_]_vars

\* C26 witness: a static array of capacity 2 after its dtor, which destroyed
\* the two elements pushed into it.
C26_Witness ==
    /\ vec.isStatic_
    /\ vec.destructed
    /\ vec.size_ = 2
    /\ vres.op = "dtor"
    /\ Len(vec.dtorLog) = 2

\* C23: ctorCopy is all-or-nothing for a signed and for an unsigned SIZE_T:
\* when the copy of element i fails (i == 0 included), ctorCopy comes back
\* with false, having destroyed exactly the copied elements [0, i) of the new
\* buffer once each and nothing else, and having freed the new buffer; the
\* source array is unchanged.
C23_CopyAllOrNothing ==
    (cres.op = "ctorCopy" /\ cres.alloc = "ok" /\ cres.calls = 0
     /\ cres.failAt < vec.nextFree_) =>
        /\ cres.returned
        /\ ~cres.ok
        /\ ~cres.oob
        /\ cres.dtorLog = DtorCallsDown(cres.buf, cres.failAt - 1, 0)
        /\ cres.freedBuf
        /\ vres = NoVCall

\* The elements of an array, in order.
Elements(s) == [k \in 1 .. s.nextFree_ |-> VectorT_getElementAt(s, k - 1)]

\* C24: when ctorCopy(dst, src) returns true, dst has the length and the
\* capacity of src and the elements of src in their order, src is unchanged,
\* and dst owns a buffer distinct from that of src: a later push, pop or
\* replace on one of them stays within its own buffer and does not change the
\* other.
C24_CopyIsIndependent ==
    [][/\ (cres'.op = "ctorCopy" /\ cres.op = "none" /\ cres'.ok) =>
            /\ vec' = vec
            /\ dst'.nextFree_ = vec.nextFree_
            /\ dst'.size_ = vec.size_
            /\ Elements(dst') = Elements(vec)
            /\ dst'.vector_ # vec.vector_
            /\ ~dst'.isStatic_
       /\ (cres.op = "ctorCopy" /\ cres'.on = "dst"
           /\ cres'.calls = cres.calls + 1) =>
            /\ vec' = vec
            /\ ~dst'.oob
            /\ dst'.vector_ # vec.vector_
       /\ (cres.op = "ctorCopy" /\ cres'.on = "src"
           /\ cres'.calls = cres.calls + 1) =>
            /\ dst' = dst
            /\ ~vec'.oob
            /\ dst.vector_ # vec'.vector_]_vars

\* C27: after any sequence of insert, remove, removeAt, setValueAt and clear
\* calls on a map, whatever each call returned, no two stored pairs have keys
\* that are equal under isEqual.
C27_KeysDistinct ==
    \A i \in 0 .. MapT_getSize(map) - 1 :
       \A j \in 0 .. MapT_getSize(map) - 1 :
          (i # j /\ KeyAt(map.impl, i) # NULL)
             => KeyAt(map.impl, i) # KeyAt(map.impl, j)

\* A pair with a key equal to key is stored in the map m.
Stored(m, key) ==
    \E i \in 0 .. MapT_getSize(m) - 1 : KeyAt(m.impl, i) = key

\* C28: insert(k, v) when a key equal to k is already stored returns false
\* and leaves getSize(), every stored pair and the order of the pairs
\* unchanged: the value associated with k is not overwritten.
C28_InsertExistingKey ==
    [][(mres'.op = "insert" /\ mres'.calls = mres.calls + 1
        /\ Stored(map, mres'.key)) =>
          /\ ~mres'.ok
          /\ MapT_getSize(map') = MapT_getSize(map)
          /\ \A i \in 0 .. MapT_getSize(map) - 1 :
                /\ MapT_getKeyAt(map', i) = MapT_getKeyAt(map, i)
                /\ MapT_getValueAt(map', i) = MapT_getValueAt(map, i)
          /\ Fields_(map'.impl) = Fields_(map.impl)]_vars

\* C28 witness: insert of a stored key with another value has just returned
\* false, and the map still associates the key with the old value.
C28_Witness ==
    /\ mres.op = "insert"
    /\ ~mres.ok
    /\ mres.calls = 2
    /\ MapT_getSize(map) = 1
    /\ MapT_getKeyAt(map, 0) = mres.key
    /\ MapT_getValueAt(map, 0) # mres.value
    /\ MapT_getValueAt(map, 0) # NULL

\* C29: whenever insert(k, v) returns true, the map afterwards contains k:
\* find(k) is true, getValueAt(getIndexOf(k)) is v and getSize() is one more
\* than before the call, in heap mode and in static mode, at any fill level.
C29_InsertedIsFound ==
    [][(mres'.op = "insert" /\ mres'.calls = mres.calls + 1 /\ mres'.ok) =>
          /\ MapT_find(map', mres'.key, FALSE)
          /\ MapT_getValueAt(map', MapT_getIndexOf(map', mres'.key, FALSE))
                = mres'.value
          /\ MapT_getSize(map') = MapT_getSize(map) + 1]_vars

\* C30: insert of a new key returns false and leaves the map unchanged
\* whenever the pair could not be stored: on a static map whose size equals
\* its capacity, when the allocator fails during growth, or when the copy
\* construction of the key or of the value fails.
C30_InsertReportsFailure ==
    [][(/\ mres'.op = "insert"
        /\ mres'.calls = mres.calls + 1
        /\ ~Stored(map, mres'.key)
        /\ \/ map.impl.isStatic_ /\ map.impl.nextFree_ = map.impl.size_
           \/ mres'.alloc = "failed"
           \/ ~mres'.kOk
           \/ ~mres'.vOk) =>
          /\ ~mres'.ok
          /\ MapT_getSize(map') = MapT_getSize(map)
          /\ map'.impl.mem = map.impl.mem
          /\ map'.impl.size_ = map.impl.size_]_vars

\* A call of the map has just returned.
MapStep(ops) == mres'.calls = mres.calls + 1 /\ mres'.op \in ops

\* The value find-then-getValueAt gives for key in m, NULL when not found.
ValueFor(m, key) ==
    LET index == MapT_getIndexOf(m, key, FALSE)
    IN IF index < 0 THEN NULL ELSE MapT_getValueAt(m, index)

\* C31: removeAt(i) with 0 <= i < size, and remove(k) that returns true, on a
\* map whose slots all hold constructed pairs: the size decreases by exactly
\* one, the key that was at i is no longer found, every other stored key is
\* still found with its value, and when i was not the last index the pair
\* that was last is now at i.
C31_RemoveAt ==
    [][(/\ MapStep({"removeAt", "remove"})
        /\ mres'.ok
        /\ ~HasJunk(map.impl))
       => LET i == mres'.index
              size == MapT_getSize(map)
          IN /\ MapT_getSize(map') = size - 1
             /\ ~MapT_find(map', MapT_getKeyAt(map, i), FALSE)
             /\ \A j \in 0 .. size - 1 :
                   j # i => /\ MapT_find(map', MapT_getKeyAt(map, j), FALSE)
                            /\ ValueFor(map', MapT_getKeyAt(map, j))
                                  = MapT_getValueAt(map, j)
             /\ i # size - 1
                   => map'.impl.mem[i] = map.impl.mem[size - 1]]_vars

\* C32: remove(k) when isEqual reports no stored key equal to k returns false
\* and leaves the size, every stored pair and the order of the pairs
\* unchanged; getIndexOf(k) is then negative and find(k) is false.
C32_RemoveAbsent ==
    [][(/\ MapStep({"remove"})
        /\ ~Stored(map, mres'.key)
        /\ ~mres'.junk)
       => /\ ~mres'.ok
          /\ MapT_getSize(map') = MapT_getSize(map)
          /\ map'.impl.mem = map.impl.mem
          /\ map'.impl.vector_ = map.impl.vector_
          /\ map'.impl.dtorLog = <<>>
          /\ MapT_getIndexOf(map', mres'.key, FALSE) < 0
          /\ ~MapT_find(map', mres'.key, FALSE)]_vars

\* remove has returned false on a map that holds a pair.
C32_Witness ==
    /\ mres.op = "remove"
    /\ ~mres.ok
    /\ ~mres.junk
    /\ MapT_getSize(map) >= 1
    /\ ~HasJunk(map.impl)

\* C33: setValueAt(i, v) with 0 <= i < size: when it returns false every
\* stored pair is unchanged; when it returns true the size, the order and
\* every key are unchanged, the value at i is v and every other value is
\* unchanged.
C33_SetValueAt ==
    [][MapStep({"setValueAt"})
       => LET i == mres'.index
              size == MapT_getSize(map)
          IN /\ i \in 0 .. size - 1
             /\ MapT_getSize(map') = size
             /\ map'.impl.vector_ = map.impl.vector_
             /\ ~mres'.ok => map'.impl.mem = map.impl.mem
             /\ mres'.ok =>
                  /\ \A j \in 0 .. size - 1 :
                        /\ MapT_getKeyAt(map', j) = MapT_getKeyAt(map, j)
                        /\ j # i => map'.impl.mem[j] = map.impl.mem[j]
                  /\ MapT_getValueAt(map', i) = mres'.value
                  /\ map'.impl.mem[i].live]_vars

\* setValueAt has returned true on a map of two pairs, and has returned false.
C33_Witness ==
    /\ mres.op = "setValueAt"
    /\ mres.ok
    /\ MapT_getSize(map) = 2
    /\ mres.index = 0
    /\ MapT_getValueAt(map, 0) # MapT_getValueAt(map, 1)

\* C40: every key or value object insert, removeAt (and remove through it) or
\* setValueAt copy-constructs is, when the call returns, owned by a stored
\* pair or destroyed: none is left constructed in item_for_insert,
\* tmp_for_removeAt or newItem_for_setValueAt.
C40_NoTemporaryLeft ==
    mres.op \in {"insert", "removeAt", "remove", "setValueAt"}
        => map.leaked = 0

\* The T_dtor calls of the last call on the slots of buffer buf, in order.
DtorCallsOn(s, buf) == SelectSeq(s.dtorLog, LAMBDA c : c.buf = buf)

\* C36: when the copy of element i fails during growth, the T_dtor calls on
\* the new buffer are exactly one for each of the slots [0, i) that were
\* copied, and no element of the old buffer is destroyed twice.
C36_GrowthRollback ==
    [][(vres'.failAt # NULL /\ vec'.dtorLog # <<>>)
       => LET i == vres'.failAt
              onNew == DtorCallsOn(vec', vec.allocs + 1)
              onOld == DtorCallsOn(vec', vec.vector_)
          IN /\ {onNew[k].idx : k \in DOMAIN onNew} = 0 .. i - 1
             /\ Len(onNew) = i
             /\ \A k, l \in DOMAIN onOld :
                   k # l => onOld[k].idx # onOld[l].idx]_vars

\* C39: after a successful ctorCopy the new array is in heap mode: isStatic_
\* is false whatever the mode of the source and whatever the destination
\* struct held before.
C39_CopyIsHeapMode == cres.ok => ~dst.isStatic_

\* C35: on a queue of capacity >= 1, last == in mod capacity and
\* first == out mod capacity, and both cursors are in [0, capacity).
C35_CursorsFollowCounters ==
    capacity >= 1
        => /\ last = in % capacity
           /\ first = out % capacity
           /\ last \in 0 .. capacity - 1
           /\ first \in 0 .. capacity - 1

\* The counter has not wrapped since the queue was constructed, or a wrap
\* does not show modulo cap.  count is the number of increments since a state
\* in which the counter had not wrapped.
Congruent(counter, count, cap) == counter >= count \/ SizeMod % cap = 0

\* C35 (amended): both cursors are in [0, capacity); last == in mod capacity
\* as long as in has not wrapped past the maximum of SIZE_T or capacity
\* divides 2^w, and likewise first == out mod capacity.
C35_CursorsUntilWrap ==
    capacity >= 1
        => /\ Congruent(in, pushes, capacity) => last = in % capacity
           /\ Congruent(out, pops, capacity) => first = out % capacity
           /\ last \in 0 .. capacity - 1
           /\ first \in 0 .. capacity - 1

\* pop has returned true on a queue of capacity 3 that still holds an
\* element, and neither counter has wrapped.
C35_Witness ==
    /\ capacity = 3
    /\ res.op = "pop"
    /\ res.ok
    /\ first # 0
    /\ last # first
    /\ in >= pushes
    /\ out >= pops
    /\ pushes >= 2

\* C38: in a single-threaded run every element push constructed is either
\* still in its slot or has been destroyed by exactly one T_dtor call, no
\* T_dtor call was made on a slot without a constructed element, and after
\* dtor no constructed element remains.
C38_ElementLifetime ==
    /\ dtors + Cardinality(live) = pushes
    /\ Cardinality(live) = getSize(Self)
    /\ res.op = "dtor" => live = {} /\ dtors = pushes

\* dtor has returned on a queue that has held more elements than it has
\* slots: every one of them has been destroyed.
C38_Witness ==
    /\ res.op = "dtor"
    /\ capacity >= 2
    /\ pushes > capacity
    /\ dtors = pushes
    /\ first # 0

\* C37: when the producer calls forcedPush on a full queue while the consumer
\* calls pop, then once both calls have returned 0 <= in - out <= capacity
\* and first == out mod capacity hold, every T_dtor call destroyed an
\* element that was still constructed, and the producer has evicted at most
\* the one oldest element.
C37_EvictWhilePop ==
    (AllIdle /\ capacity >= 1 /\ res.op = "fillFifo")
        => /\ in - out \in 0 .. capacity
           /\ first = out % capacity
           /\ dtors + Cardinality(live) = pushes
           /\ dtors <= calls["producer"] + calls["consumer"]

\* The pointers handed to a call are all non-NULL.
RleValid(a) == ~a.ibufNull /\ ~a.olenNull /\ ~a.obufNull

\* C34: for every input byte sequence, with a caller's output buffer or one
\* the function allocates, compress returns OS_SUCCESS, and decompress of its
\* output returns OS_SUCCESS and yields the original length and bytes.
C34_RoundTrip ==
    (rle.stage # "input" /\ RleValid(rle.args))
        => /\ rle.ret.err = OS_SUCCESS
           /\ (rle.stage = "decompressed" /\ RleValid(rle.dargs))
                 => /\ rle.dret.err = OS_SUCCESS
                    /\ rle.dret.olen = rle.args.ilen
                    /\ SubSeq(rle.dret.obuf, 1, rle.args.ilen)
                          = rle.args.ibuf

===========================================================================
